---- MODULE Spec2Model ----
(***************************************************************************)
(* A model of the address_search enrichment pipeline:                      *)
(*   - process_file (csvparse.py): the run controller, its cache of prior  *)
(*     output rows, the batched checkpoint writes and the escalation pass; *)
(*   - run_model_on_address (classification.py): agentic or single-shot    *)
(*     classification of one row;                                          *)
(*   - ResearchPipeline.collect_evidence (research.py): the concurrent     *)
(*     search and fetch fan-out.                                           *)
(*                                                                         *)
(* Text is modelled as a sequence of tokens: a token is a word or the      *)
(* whitespace token " ".  Python dicts are functions from column names to  *)
(* text; a missing key is a key outside the DOMAIN.                        *)
(***************************************************************************)
EXTENDS Integers, Sequences, FiniteSets, TLC

\* ------------------------------------------------------------------ bounds
MaxRows == 2          \* input records per run
MaxBatch == 2         \* batch_size is drawn from 0..MaxBatch
MaxCfg == 2           \* max_search_results / max_documents are drawn from 0..MaxCfg
MaxIterations == 2    \* max_iterations of a ToolAgent is drawn from 0..MaxIterations
MaxRetries == 2       \* max_retries of a QueryPlanner is drawn from 0..MaxRetries
MaxRaw == 6           \* pieces of text in a raw model output
MaxEvidence == 1      \* documents a collection pass of process_file may return

\* --------------------------------------------------------------- text
Min(a, b) == IF a < b THEN a ELSE b
Max(a, b) == IF a > b THEN a ELSE b

Empty == << >>
WS == " "

\* str.lower(), token by token
LowerTok(t) ==
    CASE t = "Acme" -> "acme"
      [] t = "ACME" -> "acme"
      [] t = "Main" -> "main"
      [] t = "Unknown" -> "unknown"
      [] t = "Insufficient" -> "insufficient"
      [] OTHER -> t

Lower(s) == [i \in 1..Len(s) |-> LowerTok(s[i])]

RECURSIVE LStrip(_)
LStrip(s) == IF s # Empty /\ Head(s) = WS THEN LStrip(Tail(s)) ELSE s

RECURSIVE RStrip(_)
RStrip(s) ==
    IF s # Empty /\ s[Len(s)] = WS THEN RStrip(SubSeq(s, 1, Len(s) - 1)) ELSE s

\* str.strip()
Strip(s) == RStrip(LStrip(s))

\* `phrase in text`: phrase is a contiguous run of tokens of text
Contains(text, phrase) ==
    \E i \in 0..(Len(text) - Len(phrase)) :
        SubSeq(text, i + 1, i + Len(phrase)) = phrase

\* sep.join(parts)
RECURSIVE Join(_, _)
Join(parts, sep) ==
    IF parts = << >> THEN Empty
    ELSE IF Len(parts) = 1 THEN parts[1]
    ELSE parts[1] \o sep \o Join(Tail(parts), sep)

\* ------------------------------------------------------------- dicts
\* d.get(k, "")
Get(d, k) == IF k \in DOMAIN d THEN d[k] ELSE Empty

\* {**a, **b}: the keys of b win
DictMerge(a, b) == b @@ a

\* d[k] = v
DictSet(d, k, v) == (k :> v) @@ d

Range(s) == {s[i] : i \in DOMAIN s}

\* ---------------------------------------------------------- constants.py
ADDRESS_COLUMN == "Full Address"
COMPANY_COLUMN == "Company Name"

OUTPUT_EXTRA_HEADERS ==
    <<"site_type", "confidence", "notes", "raw_model_output",
      "query_plan", "evidence_summary">>

\* _should_use_agentic_loop: hintMatch says whether some non-empty hint is a
\* substring of the lower-cased model name
ShouldUseAgenticLoop(agentic_mode, hintMatch) ==
    IF agentic_mode = "on" THEN TRUE
    ELSE IF agentic_mode = "off" THEN FALSE
    ELSE hintMatch

\* ------------------------------------------------------ csvparse.py: files
\* A CSV file: whether it exists, its header line and its data rows, each row
\* a dict over exactly the header's columns (csv.DictReader's view of it).
NoFile == [exists |-> FALSE, header |-> << >>, rows |-> << >>]

\* read_input_csv
ReadCsv(file) == file.rows

\* write_output_csv, fieldnames: the original columns, then the extra
\* columns that are not already among them
RECURSIVE AppendMissing(_, _)
AppendMissing(fieldnames, extra) ==
    IF extra = << >> THEN fieldnames
    ELSE AppendMissing(
            IF Head(extra) \in Range(fieldnames) THEN fieldnames
            ELSE Append(fieldnames, Head(extra)),
            Tail(extra))

FieldNames(original_headers) == AppendMissing(original_headers, OUTPUT_EXTRA_HEADERS)

\* csv.DictWriter._dict_to_list: a key outside fieldnames raises ValueError
\* (extrasaction defaults to "raise"); a missing key is written as "".
RowWritable(row, fieldnames) == DOMAIN row \subseteq Range(fieldnames)

RowAsWritten(row, fieldnames) == [k \in Range(fieldnames) |-> Get(row, k)]

\* Number of leading rows that DictWriter.writerows writes before it raises
RECURSIVE WritablePrefix(_, _)
WritablePrefix(rows, fieldnames) ==
    IF rows = << >> \/ ~RowWritable(Head(rows), fieldnames) THEN 0
    ELSE 1 + WritablePrefix(Tail(rows), fieldnames)

\* (mutant) only the last row is written
WriteOutputCsvLastRowOnly(rows, original_headers) ==
    [file |-> [exists |-> TRUE,
               header |-> AppendMissing(original_headers, OUTPUT_EXTRA_HEADERS),
               rows |-> IF rows = << >> THEN << >>
                        ELSE <<[k \in Range(AppendMissing(original_headers, OUTPUT_EXTRA_HEADERS))
                                  |-> IF k \in DOMAIN rows[Len(rows)] THEN rows[Len(rows)][k]
                                      ELSE << >>]>>],
     written |-> Min(1, Len(rows)),
     raised |-> FALSE]

\* write_output_csv: the file is truncated, the header written, then the rows
\* one by one until one raises; the with-block closes the file either way.
WriteOutputCsv(rows, original_headers) ==
    LET fieldnames == FieldNames(original_headers)
        n == WritablePrefix(rows, fieldnames)
    IN [file |-> [exists |-> TRUE,
                  header |-> fieldnames,
                  rows |-> [i \in 1..n |-> RowAsWritten(rows[i], fieldnames)]],
        written |-> n,
        raised |-> n < Len(rows)]

\* None, as a cache key
NoKey == << >>

\* (mutant) _cache_key without .lower()
CacheKeyNoLower(company, address) ==
    LET company_key == Strip(company)
        address_key == Strip(address)
    IN IF company_key = Empty /\ address_key = Empty THEN NoKey
       ELSE <<company_key, address_key>>

\* _cache_key
CacheKey(company, address) ==
    LET company_key == Lower(Strip(company))
        address_key == Lower(Strip(address))
    IN IF company_key = Empty /\ address_key = Empty THEN NoKey
       ELSE <<company_key, address_key>>

RowKey(row) == CacheKey(Get(row, COMPANY_COLUMN), Get(row, ADDRESS_COLUMN))

\* load_cached_rows: a dict from key to row, a later row replacing an earlier
\* one with the same key
LoadCachedRows(file) ==
    IF ~file.exists THEN << >>
    ELSE LET data == ReadCsv(file)
             keys == {RowKey(data[i]) : i \in DOMAIN data} \ {NoKey}
             last(k) == CHOOSE i \in DOMAIN data :
                            /\ RowKey(data[i]) = k
                            /\ \A j \in DOMAIN data : RowKey(data[j]) = k => j <= i
         IN [k \in keys |-> data[last(k)]]

\* format_category_signature
CategoryPart(entry) ==
    LET name == Strip(entry.name)
        description == Strip(entry.description)
    IN IF description # Empty THEN name \o <<":", WS>> \o description ELSE name

RECURSIVE CategoryParts(_)
CategoryParts(categories) ==
    IF categories = << >> THEN << >>
    ELSE IF Strip(Head(categories).name) = Empty THEN CategoryParts(Tail(categories))
    ELSE <<CategoryPart(Head(categories))>> \o CategoryParts(Tail(categories))

FormatCategorySignature(categories) ==
    IF categories = << >> THEN Empty
    ELSE Join(CategoryParts(categories), <<WS, "|", WS>>)

\* format_query_plan; NoPlan models plan = None
NoPlan == [present |-> FALSE, queries |-> << >>, rationale |-> Empty]

FormatQueryPlan(plan) ==
    IF ~plan.present THEN Empty
    ELSE LET rationale == Strip(plan.rationale)
             p1 == IF rationale # Empty THEN <<rationale>> ELSE << >>
             p2 == IF plan.queries # << >>
                   THEN <<<<"Queries:", WS>> \o Join(plan.queries, <<";", WS>>)>>
                   ELSE << >>
         IN Join(p1 \o p2, <<WS, "|", WS>>)

\* the phrases _needs_expanded_search looks for in the notes
InsufficientPhrases ==
    { <<"insufficient">>, <<"not", WS, "enough">>,
      <<"unable", WS, "to", WS, "determine">>, <<"no", WS, "evidence">> }

\* (mutant) _needs_expanded_search without the test of the notes
NeedsExpandedSearchSiteTypeOnly(result) ==
    LET site_type == Lower(Strip(Get(result, "site_type")))
    IN site_type = Empty \/ site_type = <<"unknown">>

\* _needs_expanded_search
NeedsExpandedSearch(result) ==
    LET site_type == Lower(Strip(Get(result, "site_type")))
        notes == Lower(Strip(Get(result, "notes")))
    IN \/ site_type = Empty
       \/ site_type = <<"unknown">>
       \/ \E phrase \in InsufficientPhrases : Contains(notes, phrase)

\* ------------------------------------------------ research.py: the pipeline
\* ResearchPipeline.__init__; NoPipeline models research_pipeline = None
NoPipeline ==
    [present |-> FALSE, max_search_results |-> 0, max_documents |-> 0,
     has_planner |-> FALSE, max_workers |-> 0, expanded_queries |-> FALSE]

ResearchPipeline(max_search_results, max_documents, has_planner, expanded_queries) ==
    [present |-> TRUE,
     max_search_results |-> Max(1, max_search_results),
     max_documents |-> Max(1, max_documents),
     has_planner |-> has_planner,
     max_workers |-> Max(1, Max(1, max_documents) * 2),
     expanded_queries |-> expanded_queries]

Quote(t) == <<"\"">> \o t \o <<"\"">>

\* address.split(",")[0].strip()
RECURSIVE UpToComma(_)
UpToComma(s) ==
    IF s = Empty \/ Head(s) = "," THEN Empty ELSE <<Head(s)>> \o UpToComma(Tail(s))

FirstSegment(address) == Strip(UpToComma(address))

\* the de-duplication loop at the end of build_queries
RECURSIVE DedupQueries(_, _)
DedupQueries(queries, deduped) ==
    IF queries = << >> THEN deduped
    ELSE LET q == Strip(Head(queries))
         IN DedupQueries(Tail(queries),
                IF q # Empty /\ q \notin Range(deduped) THEN Append(deduped, q)
                ELSE deduped)

\* ResearchPipeline.build_queries
BuildQueries(company_in, address_in, expanded_queries) ==
    LET company == Strip(company_in)
        address == Strip(address_in)
        first_segment == FirstSegment(address)
        facility == <<WS, "facility">>
        types == <<WS, "facility", WS, "types">>
        queries ==
            IF company # Empty /\ address # Empty THEN
                <<Quote(company) \o <<WS>> \o Quote(address)>>
                \o (IF expanded_queries
                    THEN (IF first_segment # Empty
                          THEN <<Quote(company) \o <<WS>> \o Quote(first_segment) \o facility>>
                          ELSE << >>)
                         \o <<Quote(company) \o types>>
                    ELSE << >>)
            ELSE IF company # Empty THEN
                <<Quote(company)>>
                \o (IF expanded_queries THEN <<Quote(company) \o types>> ELSE << >>)
            ELSE IF address # Empty THEN
                <<Quote(address)>>
                \o (IF expanded_queries /\ first_segment # Empty
                    THEN <<Quote(first_segment) \o facility>>
                    ELSE << >>)
            ELSE << >>
    IN DedupQueries(queries, << >>)

\* (mutant) `if company is None and address is None`: never true of strings
MissingInputNoneOnly(company, address) == FALSE

\* collect_evidence's early return: `if not company and not address`
MissingInput(company, address) == company = Empty /\ address = Empty

MissingPlan ==
    [present |-> TRUE, queries |-> << >>,
     rationale |-> <<"Missing", WS, "company", WS, "and", WS, "address">>]

HeuristicPlan(queries) ==
    [present |-> TRUE, queries |-> queries,
     rationale |-> <<"Heuristic", WS, "query", WS, "builder">>]

\* -------------------------------------- classification.py: one classification
\* The model's reply to a generate call: its raw text and what decoding it
\* gives (valid says whether a JSON object is recovered from raw).
ReplyWarehouse ==
    [valid |-> TRUE, site_type |-> <<"warehouse">>, confidence |-> <<"high">>,
     notes |-> <<"ok">>, raw |-> <<"{", "warehouse", "}">>]
ReplyUnknown ==
    [valid |-> TRUE, site_type |-> <<WS, "Unknown">>, confidence |-> <<"low">>,
     notes |-> Empty, raw |-> <<"{", "Unknown", "}">>]
ReplyInsufficient ==
    [valid |-> TRUE, site_type |-> <<"office">>, confidence |-> <<"low">>,
     notes |-> <<"Insufficient", WS, "evidence">>, raw |-> <<"{", "office", "}">>]
ReplyInvalid ==
    [valid |-> FALSE, site_type |-> Empty, confidence |-> Empty,
     notes |-> Empty, raw |-> <<"sorry">>]

Replies == {ReplyWarehouse, ReplyUnknown, ReplyInsufficient, ReplyInvalid}

\* _parse_model_response, on a reply whose decoding is given
ParseModelResponse(reply) ==
    [site_type |-> IF reply.valid THEN reply.site_type ELSE Empty,
     confidence |-> IF reply.valid THEN reply.confidence ELSE Empty,
     notes |-> IF reply.valid THEN reply.notes
               ELSE <<"model", WS, "did", WS, "not", WS, "return", WS, "valid", WS, "JSON">>,
     raw_model_output |-> reply.raw]

\* the stub returned for a row without an address
StubResult ==
    [site_type |-> Empty, confidence |-> Empty,
     notes |-> <<"no", WS, ADDRESS_COLUMN, WS, "provided">>,
     raw_model_output |-> Empty]

\* What the call tool_agent.classify(company_name=, address=, categories=)
\* can produce.  ToolAgent.classify takes (company_name, address) only, so the
\* call raises TypeError before the agent loop starts.
AgentCallOutcomes == {"type_error"}

\* The single-shot branch of run_model_on_address: the JSON-constrained call,
\* and the unconstrained retry after HTTPError only (OllamaClient.generate
\* raises HTTPError from raise_for_status, a transport error or a timeout from
\* requests.post).  Any other exception, and any exception of the retry,
\* propagates to the caller.
SingleShotOutcomes ==
    {[raised |-> FALSE, cause |-> "none", result |-> ParseModelResponse(r), model_calls |-> 1] :
        r \in Replies}
    \cup {[raised |-> TRUE, cause |-> "inference_error", result |-> StubResult, model_calls |-> 1]}
    \cup {[raised |-> FALSE, cause |-> "none", result |-> ParseModelResponse(r), model_calls |-> 2] :
        r \in Replies}
    \cup {[raised |-> TRUE, cause |-> "inference_error", result |-> StubResult, model_calls |-> 2]}

\* run_model_on_address
RunModelOnAddress(address, use_agentic) ==
    IF address = Empty THEN
        {[raised |-> FALSE, cause |-> "none", result |-> StubResult, model_calls |-> 0]}
    ELSE IF use_agentic THEN
        UNION { CASE o = "final" ->
                     {[raised |-> FALSE, cause |-> "none",
                       result |-> ParseModelResponse(r), model_calls |-> 1] : r \in Replies}
                  [] o = "tool_agent_error" -> SingleShotOutcomes
                  [] OTHER ->
                     {[raised |-> TRUE, cause |-> "agent_invocation",
                       result |-> StubResult, model_calls |-> 0]}
                : o \in AgentCallOutcomes }
    ELSE SingleShotOutcomes

\* ------------------------------------------- what a collection pass returns
\* QueryPlanner.plan_queries as process_file sees it: a plan of the model's
\* queries, or the default queries after the attempts gave none.
PlanQueriesReturns(default_queries) ==
    { [plan |-> [present |-> TRUE,
                 queries |-> << <<"acme", WS, "facility", WS, "permit">> >>,
                 rationale |-> <<"targeted">>],
       model_calls |-> 1],
      [plan |-> [present |-> TRUE,
                 queries |-> default_queries,
                 rationale |-> <<"planner", WS, "returned", WS, "invalid", WS, "JSON">>],
       model_calls |-> 2] }

\* collect_evidence as process_file sees it: the plan, the number of documents
\* (the backend decides how many candidates yield content) and the call counts.
CollectReturns(pipeline, company, address) ==
    IF MissingInput(company, address) THEN
        {[docs |-> 0, plan |-> MissingPlan, search_calls |-> 0, fetch_calls |-> 0,
          model_calls |-> 0]}
    ELSE
        LET base_queries == BuildQueries(company, address, pipeline.expanded_queries)
            plans == IF pipeline.has_planner THEN PlanQueriesReturns(base_queries)
                     ELSE {[plan |-> HeuristicPlan(base_queries), model_calls |-> 0]}
            Queries(p) == IF p.plan.queries # << >> THEN p.plan.queries
                          ELSE base_queries
            \* n documents cost at least n fetch calls; a candidate that
            \* yields no content costs two (primary and fallback)
            FetchCalls(p, n) ==
                {n} \cup (IF n + 1 <= Len(Queries(p)) * pipeline.max_search_results
                          THEN {n + 2} ELSE {})
        IN UNION { { [docs |-> n, plan |-> p.plan,
                      search_calls |-> Len(Queries(p)),
                      fetch_calls |-> f, model_calls |-> p.model_calls] :
                     f \in FetchCalls(p, n) } :
                   p \in plans, n \in 0..Min(pipeline.max_documents, MaxEvidence) }

\* ---------------------------------------- agentic.py: a ToolAgent.classify run
\* A JSON value of a tool call's arguments: an integer, a string or null
JInt(digits) == [type |-> "int", text |-> digits, numeric |-> TRUE]
JStr(text, numeric) == [type |-> "str", text |-> text, numeric |-> numeric]
JNull == [type |-> "null", text |-> Empty, numeric |-> FALSE]

\* str(value)
Str(value) == IF value.type = "null" THEN <<"None">> ELSE value.text

\* int(value) raises TypeError for None and ValueError for a non-numeric string
IntRaises(value) ==
    IF value.type = "null" THEN "TypeError"
    ELSE IF ~value.numeric THEN "ValueError"
    ELSE "none"

NoArgs == [k \in {} |-> JNull]
ArgsOf(query, count) == [k \in {"query", "count"} |-> IF k = "query" THEN query ELSE count]
QueryOnly(query) == [k \in {"query"} |-> query]
UrlOnly(url) == [k \in {"url"} |-> url]

\* The `arguments` of a tool call: a dict, a string holding JSON (an object,
\* an array, or no valid JSON), or anything else
ArgDict(d) == [kind |-> "dict", json |-> "object", value |-> d]
ArgString(json, d) == [kind |-> "str", json |-> json, value |-> d]

\* The argument parsing of _execute_tool: the dict, the decoded string ({} for
\* an empty or undecodable one), {} for another type.  A string that decodes
\* to a JSON array gives a list, which has no `get`.
ParseArguments(arguments) ==
    IF arguments.kind = "str"
    THEN IF arguments.json = "object" THEN [is_dict |-> TRUE, dict |-> arguments.value]
         ELSE IF arguments.json = "array" THEN [is_dict |-> FALSE, dict |-> NoArgs]
         ELSE [is_dict |-> TRUE, dict |-> NoArgs]
    ELSE IF arguments.kind = "dict" THEN [is_dict |-> TRUE, dict |-> arguments.value]
    ELSE [is_dict |-> TRUE, dict |-> NoArgs]

\* What a tool returns (a JSON string: a payload or an {"error": ...} object)
\* or the exception it lets escape
ToolOutput(error, body) == [raised |-> "none", is_json |-> TRUE, error |-> error, body |-> body]
ToolRaises(exception) == [raised |-> exception, is_json |-> FALSE, error |-> TRUE, body |-> Empty]

\* _tool_web_search; backend_ok says whether search_client.search returns
ToolWebSearch(args, backend_ok) ==
    IF ~args.is_dict THEN ToolRaises("AttributeError")
    ELSE LET query == IF "query" \in DOMAIN args.dict
                      THEN Strip(Str(args.dict["query"])) ELSE Empty
         IN IF "count" \in DOMAIN args.dict /\ IntRaises(args.dict["count"]) # "none"
            THEN ToolRaises(IntRaises(args.dict["count"]))
            ELSE IF query = Empty
            THEN ToolOutput(TRUE, <<"web_search", WS, "requires", WS, "a", WS,
                                    "non-empty", WS, "query">>)
            ELSE IF ~backend_ok
            THEN ToolOutput(TRUE, <<"web_search", WS, "failed">>)
            ELSE ToolOutput(FALSE, <<"results", WS>> \o query)

\* _tool_fetch_url; backend_ok says whether page_fetcher.fetch returns
ToolFetchUrl(args, backend_ok) ==
    IF ~args.is_dict THEN ToolRaises("AttributeError")
    ELSE LET url == IF "url" \in DOMAIN args.dict
                    THEN Strip(Str(args.dict["url"])) ELSE Empty
         IN IF url = Empty
            THEN ToolOutput(TRUE, <<"fetch_url", WS, "requires", WS, "a", WS, "URL">>)
            ELSE IF ~backend_ok
            THEN ToolOutput(TRUE, <<"fetch_url", WS, "failed">>)
            ELSE ToolOutput(FALSE, <<"content", WS>> \o url)

\* _execute_tool
ExecuteTool(call, backend_ok) ==
    LET args == ParseArguments(call.arguments)
    IN IF call.name = "web_search" THEN ToolWebSearch(args, backend_ok)
       ELSE IF call.name = "fetch_url" THEN ToolFetchUrl(args, backend_ok)
       ELSE ToolOutput(TRUE, <<"unknown", WS, "tool">>)

\* Does the tool reach the search or fetch backend
UsesBackend(call) ==
    LET out == ExecuteTool(call, FALSE)
    IN out.raised = "none" /\ out.body \in {<<"web_search", WS, "failed">>,
                                            <<"fetch_url", WS, "failed">>}

\* The tool calls a model may request
ToolCall(id, name, arguments) == [id |-> id, name |-> name, arguments |-> arguments]

SearchCall ==
    ToolCall("s1", "web_search", ArgDict(ArgsOf(JStr(<<"acme">>, FALSE), JInt(<<"3">>))))
SearchStringArgs ==
    ToolCall("s2", "web_search",
             ArgString("object", QueryOnly(JStr(<<WS, "acme">>, FALSE))))
SearchNoArgs == ToolCall("s3", "web_search", ArgString("invalid", NoArgs))
SearchNullCount ==
    ToolCall("s4", "web_search", ArgDict(ArgsOf(JStr(<<"acme">>, FALSE), JNull)))
SearchWordCount ==
    ToolCall("s5", "web_search",
             ArgDict(ArgsOf(JStr(<<"acme">>, FALSE), JStr(<<"many">>, FALSE))))
FetchCall == ToolCall("f1", "fetch_url", ArgDict(UrlOnly(JStr(<<"a">>, FALSE))))
FetchArrayArgs == ToolCall("f2", "fetch_url", ArgString("array", NoArgs))
UnknownCall == ToolCall("z1", "zap", ArgDict(NoArgs))

ToolCalls == {SearchCall, SearchStringArgs, SearchNoArgs, SearchNullCount,
              SearchWordCount, FetchCall, FetchArrayArgs, UnknownCall}

\* message["content"]: a string, a list of blocks (strings or dicts with a
\* "text"), or absent
ContentNone == [type |-> "none", text |-> Empty, blocks |-> << >>]
ContentStr(text) == [type |-> "str", text |-> text, blocks |-> << >>]
ContentList(blocks) == [type |-> "list", text |-> Empty, blocks |-> blocks]
Block(is_str, text) == [is_str |-> is_str, text |-> text]

\* filter(None, texts)
RECURSIVE NonEmptyTexts(_)
NonEmptyTexts(blocks) ==
    IF blocks = << >> THEN << >>
    ELSE (IF Head(blocks).text # Empty THEN <<Head(blocks).text>> ELSE << >>)
         \o NonEmptyTexts(Tail(blocks))

\* _extract_content
ExtractContent(content) ==
    IF content.type = "str" THEN Strip(content.text)
    ELSE IF content.type = "list" THEN Strip(Join(NonEmptyTexts(content.blocks), <<WS>>))
    ELSE Empty

Msg(role, content, tool_calls, tool_call_id, name) ==
    [empty |-> FALSE, role |-> role, content |-> content, tool_calls |-> tool_calls,
     tool_call_id |-> tool_call_id, name |-> name]

\* response.get("message", {}) when the reply has no message or an empty one
EmptyMessage == [Msg("", ContentNone, << >>, "", "") EXCEPT !.empty = TRUE]

Assistant(content, tool_calls) == Msg("assistant", content, tool_calls, "", "")

FinalJson == <<"{", "warehouse", "}">>

\* What client.chat gives: a message, or a RequestException
ChatMessages ==
    {Assistant(ContentNone, <<c>>) : c \in ToolCalls}
    \cup {Assistant(ContentStr(Empty), <<SearchCall, FetchCall>>),
          Assistant(ContentStr(FinalJson), <<UnknownCall>>),
          Assistant(ContentStr(<<WS>> \o FinalJson \o <<WS>>), << >>),
          Assistant(ContentList(<<Block(TRUE, <<"{">>), Block(FALSE, Empty),
                                  Block(FALSE, <<"warehouse", "}">>)>>), << >>),
          Assistant(ContentStr(<<WS>>), << >>),
          Assistant(ContentNone, << >>),
          EmptyMessage}

ChatReplies ==
    {[raised |-> FALSE, message |-> m] : m \in ChatMessages}
    \cup {[raised |-> TRUE, message |-> EmptyMessage]}

\* --------------------------- classification.py: decoding the model's output
\* A raw model output is a sequence of pieces of text: the braces, the member
\* "site_type": "warehouse" (kv), a key followed by a colon (n:), the array
\* [1], and a word that is no JSON (x).
JsonTokens == {"{", "}", "kv", "n:", "x", "[1]"}

NoFields == [k \in {} |-> Empty]
JsonObject(fields) == [kind |-> "object", fields |-> fields]
JsonList == [kind |-> "list", fields |-> NoFields]
DecodeFails == [ok |-> FALSE, next |-> 0, value |-> JsonObject(NoFields)]
Decoded(value, next) == [ok |-> TRUE, next |-> next, value |-> value]

\* json.loads on these texts, from piece i: an array, an empty object, an
\* object with the member kv, or an object with the key n and a value
RECURSIVE DecodeValue(_, _)
DecodeValue(s, i) ==
    IF i > Len(s) THEN DecodeFails
    ELSE IF s[i] = "[1]" THEN Decoded(JsonList, i + 1)
    ELSE IF s[i] # "{" \/ i + 1 > Len(s) THEN DecodeFails
    ELSE IF s[i + 1] = "}" THEN Decoded(JsonObject(NoFields), i + 2)
    ELSE IF s[i + 1] = "kv"
    THEN IF i + 2 <= Len(s) /\ s[i + 2] = "}"
         THEN Decoded(JsonObject([k \in {"site_type"} |-> <<"warehouse">>]), i + 3)
         ELSE DecodeFails
    ELSE IF s[i + 1] = "n:"
    THEN LET v == DecodeValue(s, i + 2)
         IN IF v.ok /\ v.next <= Len(s) /\ s[v.next] = "}"
            THEN Decoded(JsonObject([k \in {"n"} |-> <<"nested">>]), v.next + 1)
            ELSE DecodeFails
    ELSE DecodeFails

\* json.loads: the whole text must be one value
JsonLoads(s) ==
    LET v == DecodeValue(s, 1)
    IN IF v.ok /\ v.next = Len(s) + 1 THEN v ELSE DecodeFails

\* bool(parsed)
Truthy(value) == value.kind = "list" \/ DOMAIN value.fields # {}

\* _extract_json_blob returned None
NoBlob == [found |-> FALSE, value |-> JsonObject(NoFields)]

\* The loop of _extract_json_blob from index idx, with its stack depth and
\* start_idx (0 for None)
RECURSIVE ScanForBlob(_, _, _, _)
ScanForBlob(raw_output, idx, stack, start_idx) ==
    IF idx > Len(raw_output) THEN NoBlob
    ELSE IF raw_output[idx] = "{"
    THEN ScanForBlob(raw_output, idx + 1, stack + 1,
                     IF stack = 0 THEN idx ELSE start_idx)
    ELSE IF raw_output[idx] = "}" /\ stack > 0
    THEN IF stack - 1 = 0 /\ start_idx # 0
         THEN LET snippet == JsonLoads(SubSeq(raw_output, start_idx, idx))
              IN IF snippet.ok THEN [found |-> TRUE, value |-> snippet.value]
                 ELSE ScanForBlob(raw_output, idx + 1, 0, start_idx)
         ELSE ScanForBlob(raw_output, idx + 1, stack - 1, start_idx)
    ELSE ScanForBlob(raw_output, idx + 1, stack, start_idx)

\* (mutant) the first span is the only one tried
BlobOfFirstSpanOnly(raw_output) ==
    LET RECURSIVE First(_, _, _)
        First(idx, stack, start_idx) ==
            IF idx > Len(raw_output) THEN NoBlob
            ELSE IF raw_output[idx] = "{"
            THEN First(idx + 1, stack + 1, IF stack = 0 THEN idx ELSE start_idx)
            ELSE IF raw_output[idx] = "}" /\ stack > 0
            THEN IF stack - 1 = 0
                 THEN LET snippet == JsonLoads(SubSeq(raw_output, start_idx, idx))
                      IN IF snippet.ok THEN [found |-> TRUE, value |-> snippet.value]
                         ELSE NoBlob
                 ELSE First(idx + 1, stack - 1, start_idx)
            ELSE First(idx + 1, stack, start_idx)
    IN First(1, 0, 0)

\* _extract_json_blob
ExtractJsonBlob(raw_output) == ScanForBlob(raw_output, 1, 0, 0)

InvalidJsonNote == <<"model", WS, "did", WS, "not", WS, "return", WS, "valid", WS, "JSON">>

\* (mutant) no note when nothing decodes
NotesWhenNothingDecodesEmpty == Empty

\* notes = "model did not return valid JSON"
NotesWhenNothingDecodes == InvalidJsonNote

\* _parse_model_response on a raw output: the strict decoding, the recovery of
\* an embedded object, and the fields of what was decoded.  `parsed.get` of a
\* decoded value that is not an object raises AttributeError.
ParseRawOutput(raw_output) ==
    LET strict == JsonLoads(raw_output)
        blob == IF strict.ok THEN NoBlob ELSE ExtractJsonBlob(raw_output)
        has_parsed == strict.ok \/ blob.found
        parsed == IF strict.ok THEN strict.value ELSE blob.value
        notes == IF has_parsed THEN Empty ELSE NotesWhenNothingDecodes
    IN IF has_parsed /\ Truthy(parsed) /\ parsed.kind # "object"
       THEN [raised |-> "AttributeError",
             result |-> [site_type |-> Empty, confidence |-> Empty, notes |-> Empty,
                         raw_model_output |-> Empty]]
       ELSE [raised |-> "none",
             result |->
                [site_type |-> IF has_parsed /\ Truthy(parsed)
                               THEN Get(parsed.fields, "site_type") ELSE Empty,
                 confidence |-> IF has_parsed /\ Truthy(parsed)
                                THEN Get(parsed.fields, "confidence") ELSE Empty,
                 notes |-> IF has_parsed /\ Truthy(parsed) /\ "notes" \in DOMAIN parsed.fields
                           THEN parsed.fields["notes"] ELSE notes,
                 raw_model_output |-> raw_output]]

\* No _parse_model_response call is being followed
NoParse == [pc |-> "idle", raw_output |-> << >>, raised |-> "none", result |-> StubResult]

\* ------------------------------ summarizer.py: EvidenceSummarizer.summarize
\* An EvidenceDocument, as far as summarize reads it
Doc(title, snippet) == [title |-> title, snippet |-> snippet]

\* str(idx)
Digit(n) == CASE n = 1 -> "1" [] n = 2 -> "2" [] n = 3 -> "3" [] OTHER -> "4"

\* _fallback_summary: the numbered titles and snippets of the first
\* max_documents documents, joined with "; "
FallbackSummary(evidence, max_documents) ==
    LET n == Min(Len(evidence), max_documents)
        snippets == [i \in 1..n |-> <<Digit(i), ".", WS>> \o evidence[i].title
                                      \o <<WS, "-", WS>> \o evidence[i].snippet]
        joined == Join(snippets, <<";", WS>>)
    IN IF joined # Empty THEN joined
       ELSE <<"Evidence", WS, "available", WS, "but", WS, "summarizer", WS, "failed.">>

\* What client.generate gives the summarizer: a RequestException, or a text
SummarizerReplies ==
    {[raised |-> TRUE, raw |-> Empty]}
    \cup {[raised |-> FALSE, raw |-> raw] :
            raw \in {Empty, <<WS>>, <<WS, WS>>, <<"-", WS, "clue">>,
                     <<WS, "-", WS, "clue", WS>>}}

\* text = raw.strip()
ModelText(raw) == Strip(raw)

\* summarize, for one reply of the model
SummarizeEvidence(evidence, max_documents, reply) ==
    IF evidence = << >>
    THEN [text |-> <<"No", WS, "supporting", WS, "evidence", WS, "collected", WS, "yet.">>,
          source_count |-> 0, used_model |-> FALSE, raw_output |-> Empty, model_calls |-> 0]
    ELSE IF reply.raised
    THEN [text |-> FallbackSummary(evidence, max_documents),
          source_count |-> Min(Len(evidence), max_documents),
          used_model |-> FALSE,
          raw_output |-> FallbackSummary(evidence, max_documents), model_calls |-> 1]
    ELSE [text |-> ModelText(reply.raw),
          source_count |-> Min(Len(evidence), max_documents),
          used_model |-> TRUE, raw_output |-> reply.raw, model_calls |-> 1]

\* No summarize call is being followed
NoSummary ==
    [pc |-> "idle", evidence |-> << >>, max_documents |-> 1, reply |-> [raised |-> FALSE, raw |-> Empty],
     result |-> SummarizeEvidence(<< >>, 1, [raised |-> FALSE, raw |-> Empty])]

\* ------------------------------------- classification.py: the call, in steps
\* agent_config: AgenticConfig or None
AgenticConfig(enabled, search_client, page_fetcher) ==
    [present |-> TRUE, enabled |-> enabled, search_client |-> search_client,
     page_fetcher |-> page_fetcher]
NoAgenticConfig ==
    [present |-> FALSE, enabled |-> FALSE, search_client |-> FALSE, page_fetcher |-> FALSE]

\* use_agentic
UseAgenticConfig(agent_config) ==
    /\ agent_config.present
    /\ agent_config.enabled
    /\ agent_config.search_client
    /\ agent_config.page_fetcher

\* What client.generate gives: a reply, an HTTPError (raise_for_status), or
\* another RequestException (connection error, timeout)
GenerateResponses ==
    {[error |-> "none", reply |-> r] : r \in Replies}
    \cup {[error |-> e, reply |-> ReplyInvalid] : e \in {"HTTPError", "RequestException"}}

\* What the model's replies would make the agent loop do, were it entered
AgentScripts == {"final", "tool_agent_error"}

\* No run_model_on_address call is being followed.  generate_options lists
\* the generate calls made, each by its options ("json" with the format
\* constraint, "plain" without); agent_calls counts tool_agent.classify calls.
NoRunModel ==
    [pc |-> "idle", company_name |-> Empty, address |-> Empty,
     agent_config |-> NoAgenticConfig, agent_script |-> "final",
     agent_reply |-> ReplyInvalid, agent_calls |-> 0, agent_outcome |-> "not_run",
     generate_options |-> << >>, errors |-> << >>,
     raised |-> "none", result |-> StubResult]

\* ------------------------------------------ planning.py: QueryPlanner
\* QueryPlan
QueryPlan(queries, rationale, raw_plan, used_model) ==
    [queries |-> queries, rationale |-> rationale, raw_plan |-> raw_plan,
     used_model |-> used_model]

\* What the planner's model can write: text that is empty, no JSON, a JSON
\* object or a JSON array, inside a markdown fence or not.  For an object,
\* the value of "queries" (absent, a list of strings or a string) and of
\* "rationale" (absent or a string).
PlannerRaw(fenced, json, queries, rationale) ==
    [fenced |-> fenced, json |-> json, queries |-> queries, rationale |-> rationale]
NoMember == [type |-> "absent", items |-> << >>, text |-> Empty]
ListMember(items) == [type |-> "list", items |-> items, text |-> Empty]
StrMember(text) == [type |-> "str", items |-> << >>, text |-> text]

\* the empty string
EmptyRaw == PlannerRaw(FALSE, "empty", NoMember, NoMember)

\* bool(raw)
RawNonEmpty(raw) == raw.fenced \/ raw.json # "empty"

QueryPermit == <<"acme", WS, "facility", WS, "permit">>
QueryZoning == <<"acme", WS, "zoning">>
QueryPadded == <<WS, "acme", WS, "plant", WS>>

PlannerRaws ==
    { EmptyRaw,
      PlannerRaw(FALSE, "invalid", NoMember, NoMember),
      PlannerRaw(TRUE, "empty", NoMember, NoMember),
      PlannerRaw(FALSE, "list", NoMember, NoMember),
      PlannerRaw(FALSE, "object", NoMember, NoMember),
      PlannerRaw(FALSE, "object", ListMember(<< >>), StrMember(<<WS, "none", WS, "found">>)),
      PlannerRaw(FALSE, "object", ListMember(<< <<WS>>, Empty >>), StrMember(<<WS>>)),
      PlannerRaw(FALSE, "object", StrMember(QueryPermit), NoMember),
      PlannerRaw(TRUE, "object", ListMember(<< QueryPermit >>), StrMember(<<"targeted">>)),
      PlannerRaw(FALSE, "object",
                 ListMember(<< QueryPadded, <<WS>>, QueryPermit, QueryZoning, QueryPermit >>),
                 NoMember) }

\* _strip_markdown_fence: the text inside the fence, or raw when there is no
\* fence or nothing inside it
StripMarkdownFence(raw) ==
    IF ~raw.fenced THEN raw
    ELSE IF raw.json = "empty" THEN raw
    ELSE [raw EXCEPT !.fenced = FALSE]

\* [str(q).strip() for q in raw_queries if str(q).strip()]
RECURSIVE StrippedNonBlank(_)
StrippedNonBlank(items) ==
    IF items = << >> THEN << >>
    ELSE IF Strip(Head(items)) # Empty
    THEN <<Strip(Head(items))>> \o StrippedNonBlank(Tail(items))
    ELSE StrippedNonBlank(Tail(items))

\* [q for q in queries if q.strip()]
RECURSIVE NonBlank(_)
NonBlank(items) ==
    IF items = << >> THEN << >>
    ELSE IF Strip(Head(items)) # Empty THEN <<Head(items)>> \o NonBlank(Tail(items))
    ELSE NonBlank(Tail(items))

\* (mutant) no truncation
TruncateNothing(seq, n) == seq

\* seq[:n]
Truncate(seq, n) == SubSeq(seq, 1, Min(n, Len(seq)))

InvalidJsonRationale == <<"planner", WS, "returned", WS, "invalid", WS, "JSON">>
RequestFailedRationale == <<"planner", WS, "request", WS, "failed">>
FallbackRationale == <<"Fallback", WS, "to", WS, "heuristic", WS, "queries">>

\* json.loads(cleaned) returns: the text is a JSON value
DecodesAsJson(cleaned) == ~cleaned.fenced /\ cleaned.json \in {"object", "list"}

\* _parse_plan: `parsed.get` of decoded JSON that is not an object raises
\* AttributeError
ParsePlan(raw) ==
    LET cleaned == StripMarkdownFence(raw)
    IN IF ~DecodesAsJson(cleaned)
       THEN [raised |-> "none", plan |-> QueryPlan(<< >>, InvalidJsonRationale, raw, FALSE)]
       ELSE IF cleaned.json # "object"
       THEN [raised |-> "AttributeError", plan |-> QueryPlan(<< >>, Empty, raw, FALSE)]
       ELSE [raised |-> "none",
             plan |-> QueryPlan(IF cleaned.queries.type = "list"
                                THEN StrippedNonBlank(cleaned.queries.items) ELSE << >>,
                                Strip(cleaned.rationale.text), raw, FALSE)]

\* _call_model: the JSON-constrained generate call, and the call without the
\* constraint after an HTTPError of the first.  A RequestException of the
\* first call that is no HTTPError, or any of the second, is raised.
CallModelOutcomes ==
    {[raised |-> FALSE, raw |-> raw, calls |-> calls] :
        raw \in PlannerRaws, calls \in {1, 2}}
    \cup {[raised |-> TRUE, raw |-> EmptyRaw, calls |-> calls] : calls \in {1, 2}}

\* (mutant) the plan of the last attempt is returned as it is
PlanAfterLoopKeepsPlan(plan, default_queries, max_queries) == plan

\* The end of plan_queries, after the loop
PlanAfterLoop(plan, default_queries, max_queries) ==
    LET fallen == IF plan.queries = << >>
                  THEN [plan EXCEPT
                           !.queries = Truncate(default_queries, max_queries),
                           !.rationale = IF plan.rationale = Empty THEN FallbackRationale
                                         ELSE plan.rationale,
                           !.used_model = plan.used_model /\ RawNonEmpty(plan.raw_plan)]
                  ELSE plan
        kept == Truncate(NonBlank(fallen.queries), max_queries)
    IN [fallen EXCEPT !.queries = IF kept = << >>
                                  THEN Truncate(default_queries, max_queries)
                                  ELSE kept]

\* No plan_queries call is being followed
NoPlanning ==
    [pc |-> "idle", max_queries |-> 1, max_retries |-> 1, configured_retries |-> 1,
     company |-> Empty, address |-> Empty, default_queries |-> << >>,
     attempt |-> 0, plan |-> QueryPlan(<< >>, RequestFailedRationale, EmptyRaw, FALSE),
     last_raw |-> EmptyRaw, has_last_raw |-> FALSE,
     outcomes |-> << >>, model_calls |-> 0, error |-> "none"]

\* QueryPlanner.__init__ and the entry of plan_queries
StartPlanning(max_queries, max_retries, company, address, default_queries) ==
    [NoPlanning EXCEPT !.pc = "loop",
                       !.max_queries = Max(1, max_queries),
                       !.max_retries = Max(1, max_retries),
                       !.configured_retries = max_retries,
                       !.company = company, !.address = address,
                       !.default_queries = default_queries]

\* (mutant) the tool message does not carry the call's id
ToolMessageWithoutId(call, tool_output) ==
    Msg("tool", ContentStr(tool_output.body), << >>, "", call.name)

\* tool_message
ToolMessage(call, tool_output) ==
    Msg("tool", ContentStr(tool_output.body), << >>, call.id, call.name)

\* (mutant) a message without tool calls and without text counts as empty
IsEmptyMessageOrNoText(message) ==
    message.empty \/ (message.tool_calls = << >> /\ ExtractContent(message.content) = Empty)

\* (mutant) no message counts as empty
IsEmptyMessageNever(message) == FALSE

\* `if not message:`
IsEmptyMessage(message) == message.empty

\* What the chat call gave (history): a RequestException, an empty message,
\* a message with tool calls, with a final text, or with neither
ReplyKind(reply) ==
    IF reply.raised THEN "failed"
    ELSE IF reply.message.empty THEN "empty"
    ELSE IF reply.message.tool_calls # << >> THEN "tool_calls"
    ELSE IF ExtractContent(reply.message.content) # Empty THEN "final"
    ELSE "no_text"

\* No ToolAgent.classify run is being followed
NoAgentRun ==
    [pc |-> "idle", configured |-> 0, max_iterations |-> 0, iteration |-> 0,
     messages |-> << >>, pending |-> << >>, final_text |-> Empty, error |-> "none",
     model_calls |-> 0, tool_runs |-> 0, only_tool_calls |-> TRUE, last_reply |-> "none"]

\* ToolAgent.__init__ and the two opening messages of classify
StartAgent(max_iterations) ==
    [NoAgentRun EXCEPT !.pc = "awaiting_model",
                       !.configured = max_iterations,
                       !.max_iterations = Max(1, max_iterations),
                       !.messages = <<Msg("system", ContentStr(<<"instructions">>), << >>, "", ""),
                                      Msg("user", ContentStr(<<"Acme", WS, "1", WS, "Main">>),
                                          << >>, "", "")>>]

\* ------------------------------------------------------------------ state
VARIABLES
    cfg,              \* the arguments of the process_file call and the environment
    input_file,       \* the input CSV
    outfile,          \* the output CSV (the prior run's output before the first write)
    pc,               \* where process_file is
    abort,            \* why process_file raised, "none" while it has not
    run,              \* what process_file sets up before the row loop
    output_rows,      \* output_rows
    rows_since_flush, \* rows_since_flush
    idx,              \* idx: the row being processed (1-based)
    cur,              \* the loop body's locals for the row being processed, and
                      \* which kinds of call were made for it
    hist,             \* per output row: how it was produced (history)
    written,          \* how many of this run's rows the output file holds (history)
    ce,               \* the locals of a collect_evidence call, and where it is
    pool,             \* the futures of the call's ThreadPoolExecutor
    backend,          \* the calls the collect_evidence call has made (history)
    agent,            \* the locals of a ToolAgent.classify run, and where it is
    planner,          \* the locals of a QueryPlanner.plan_queries call
    parse,            \* a _parse_model_response call: its argument and its outcome
    summary,          \* an EvidenceSummarizer.summarize call: its arguments and its outcome
    rm                \* a run_model_on_address call: its arguments and where it is

pfVars == <<cfg, input_file, outfile, pc, abort, run, output_rows,
            rows_since_flush, idx, cur, hist, written>>

ceVars == <<ce, pool, backend>>

vars == <<pfVars, ceVars, agent, planner, parse, summary, rm>>

\* What the steps of one component leave alone
exceptProcess == <<ceVars, agent, planner, parse, summary, rm>>
exceptCollect == <<pfVars, agent, planner, parse, summary, rm>>
exceptAgent == <<pfVars, ceVars, planner, parse, summary, rm>>
exceptPlanner == <<pfVars, ceVars, agent, parse, summary, rm>>
exceptParse == <<pfVars, ceVars, agent, planner, summary, rm>>
exceptSummarize == <<pfVars, ceVars, agent, planner, parse, rm>>
exceptRunModel == <<pfVars, ceVars, agent, planner, parse, summary>>

\* ------------------------------------------------------------- the inputs
HeadersPlain == <<COMPANY_COLUMN, ADDRESS_COLUMN>>
HeadersWithCategory == <<COMPANY_COLUMN, ADDRESS_COLUMN, "category_suggestions">>

InRow(company, address) == [k \in {COMPANY_COLUMN, ADDRESS_COLUMN} |->
                               IF k = COMPANY_COLUMN THEN company ELSE address]

RowAcme == InRow(<<WS, "Acme", WS>>, <<"1", WS, "main", WS>>)
RowNoAddress == InRow(<<"Bolt">>, <<WS>>)
RowBlank == InRow(Empty, Empty)

InputRowSet == {RowAcme, RowNoAddress, RowBlank}

WithCategoryColumn(row) == DictSet(row, "category_suggestions", Empty)

SeqsUpTo(S, n) == UNION {[1..k -> S] : k \in 0..n}

InputFiles ==
    {[exists |-> TRUE, header |-> HeadersPlain, rows |-> rows] :
        rows \in SeqsUpTo(InputRowSet, MaxRows)}
    \cup
    {[exists |-> TRUE, header |-> HeadersWithCategory,
      rows |-> [i \in DOMAIN rows |-> WithCategoryColumn(rows[i])]] :
        rows \in SeqsUpTo(InputRowSet, MaxRows)}

CategoryA == [name |-> <<"A", WS>>, description |-> <<"desc">>]
SignatureA == <<"A", ":", WS, "desc">>

\* A row of a prior output file
PriorRow(header, company, address, site_type, signature) ==
    [k \in Range(header) |->
        CASE k = COMPANY_COLUMN -> company
          [] k = ADDRESS_COLUMN -> address
          [] k = "site_type" -> site_type
          [] k = "confidence" -> <<"high">>
          [] k = "notes" -> <<"from", WS, "cache">>
          [] k = "raw_model_output" -> <<"{", "cached", "}">>
          [] k = "category_suggestions" -> signature
          [] OTHER -> Empty]

\* The output file left by an earlier run: none, one without the category
\* column, one whose rows carry the category signature "A: desc"
PriorPlain ==
    LET h == HeadersPlain \o OUTPUT_EXTRA_HEADERS
    IN [exists |-> TRUE, header |-> h,
        rows |-> <<PriorRow(h, <<"ACME">>, <<"1", WS, "Main">>, <<"office">>, Empty)>>]

PriorSigned ==
    LET h == HeadersWithCategory \o OUTPUT_EXTRA_HEADERS
    IN [exists |-> TRUE, header |-> h,
        rows |-> <<PriorRow(h, <<"ACME">>, <<"1", WS, "Main">>, <<"office">>, SignatureA),
                   PriorRow(h, <<"bolt", WS>>, Empty, <<"depot">>, SignatureA)>>]

PriorFiles == {NoFile, PriorPlain, PriorSigned}

NoInt == {}     \* an Optional[int] that is None; {n} is the int n
OptInts(S) == {NoInt} \cup {{n} : n \in S}
IntOf(o) == CHOOSE n \in o : TRUE

\* (agentic_mode, does a hint match the model name)
AgenticInputs == {<<"off", TRUE>>, <<"on", FALSE>>, <<"auto", TRUE>>}

MkCfg(web, ag, cats, batch, msr, md, esr, emd, token) ==
    [enable_web_research |-> web, agentic_mode |-> ag[1], hint_match |-> ag[2],
     category_suggestions |-> cats, batch_size |-> batch,
     max_search_results |-> msr, max_documents |-> md,
     expanded_search_results |-> esr, expanded_max_documents |-> emd,
     ignore_cache |-> FALSE, limit |-> NoInt, random_sample |-> FALSE,
     has_token |-> token]

NoCur ==
    [company |-> Empty, address |-> Empty, evidence_docs |-> 0,
     plan_summary |-> Empty, evidence_summary_text |-> Empty,
     model_result |-> StubResult, pass |-> 0,
     searched |-> FALSE, fetched |-> FALSE, inferred |-> FALSE,
     collect_passes |-> 0, classify_passes |-> 0, expansions |-> 0,
     first_result |-> StubResult, expanded_pipeline |-> NoPipeline,
     summarize_passes |-> 0, new_evidence_docs |-> 0,
     first_plan_summary |-> Empty, first_summary_text |-> Empty,
     first_summarize_passes |-> 0]

NoRun ==
    [category_hint_text |-> Empty, use_agentic_tools |-> FALSE,
     has_search_stack |-> FALSE, has_planner |-> FALSE, has_summarizer |-> FALSE,
     research_pipeline |-> NoPipeline, cached_rows |-> << >>,
     original_headers |-> << >>, rows_to_process |-> << >>, batch_size |-> 1]

\* No collect_evidence call is being followed
NoCall ==
    [pc |-> "idle", company |-> Empty, address |-> Empty, pipeline |-> NoPipeline,
     plan |-> NoPlan, queries |-> << >>, next_query |-> 1, workers |-> 0,
     aggregated_results |-> << >>, fetch_candidates |-> << >>,
     documents |-> << >>, search_call_count |-> 0, fetch_call_count |-> 0]

Urls == {"a", "b", "c"}

NoBackendCalls ==
    [planner |-> 0, search |-> 0, primary |-> [u \in Urls |-> 0],
     fallback |-> [u \in Urls |-> 0]]

InitProcess(configs, inputs, priors) ==
    /\ cfg \in configs
    /\ input_file \in inputs
    /\ outfile \in priors
    /\ pc = "startup"
    /\ abort = "none"
    /\ run = NoRun
    /\ output_rows = << >>
    /\ rows_since_flush = 0
    /\ idx = 1
    /\ cur = NoCur
    /\ hist = << >>
    /\ written = 0

InitWith(configs, inputs, priors) ==
    /\ InitProcess(configs, inputs, priors)
    /\ ce = NoCall
    /\ pool = << >>
    /\ backend = NoBackendCalls
    /\ agent = NoAgentRun
    /\ planner = NoPlanning
    /\ parse = NoParse
    /\ summary = NoSummary
    /\ rm = NoRunModel

\* Runs over the inputs, the caches and the batch sizes, without web research
Configs ==
    {MkCfg(FALSE, ag, cats, batch, 1, 1, NoInt, NoInt, TRUE) :
        ag \in AgenticInputs, cats \in {<< >>, <<CategoryA>>}, batch \in 0..MaxBatch}
    \cup {MkCfg(FALSE, <<"on", FALSE>>, << >>, 1, 1, 1, NoInt, NoInt, FALSE)}

Init == InitWith(Configs, InputFiles, PriorFiles)

\* Runs with a row limit, taken from the head of the input or as a random
\* sample, and the run that lacks the credential
SampledConfigs ==
    {[MkCfg(FALSE, <<"off", TRUE>>, << >>, batch, 1, 1, NoInt, NoInt, TRUE)
         EXCEPT !.limit = limit, !.random_sample = random_sample] :
        batch \in 1..MaxBatch, limit \in OptInts(-1..MaxRows), random_sample \in BOOLEAN}
    \cup {MkCfg(FALSE, <<"on", FALSE>>, << >>, 1, 1, 1, NoInt, NoInt, FALSE)}

InitSampled == InitWith(SampledConfigs, InputFiles, PriorFiles)

\* Runs over the modes and the thresholds: one row to classify, or a row
\* without an address followed by a cached row
EscalationFile(rows) ==
    [exists |-> TRUE, header |-> HeadersWithCategory,
     rows |-> [i \in DOMAIN rows |-> WithCategoryColumn(rows[i])]]

EscalationConfigs ==
    {MkCfg(web, ag, << >>, 1, msr, md, esr, emd, TRUE) :
        web \in BOOLEAN, ag \in {<<"off", TRUE>>, <<"on", FALSE>>},
        msr \in 0..MaxCfg, md \in 0..MaxCfg,
        esr \in OptInts(0..MaxCfg + 1), emd \in OptInts(0..MaxCfg + 1)}
    \cup {MkCfg(TRUE, <<"off", TRUE>>, << >>, 1, 1, 1, NoInt, NoInt, FALSE)}

InitEscalation ==
    \/ InitWith(EscalationConfigs, {EscalationFile(<<RowAcme>>)}, {NoFile})
    \/ InitWith(EscalationConfigs, {EscalationFile(<<RowNoAddress, RowAcme>>)}, {PriorPlain})

\* ------------------------------------------------ process_file: the set-up
\* rows_to_process: all rows, the first `limit` rows, or a random sample of
\* `limit` rows (random.sample: distinct positions, in any order)
RowsToProcessChoices(input_rows, limit, random_sample) ==
    IF limit = NoInt THEN {input_rows}
    ELSE LET effective_limit == Min(Max(IntOf(limit), 0), Len(input_rows))
         IN IF random_sample /\ effective_limit > 0
            THEN {[i \in 1..effective_limit |-> input_rows[f[i]]] :
                    f \in {g \in [1..effective_limit -> DOMAIN input_rows] :
                             \A a, b \in 1..effective_limit : a # b => g[a] # g[b]}}
            ELSE {SubSeq(input_rows, 1, effective_limit)}

UseAgenticTools == ShouldUseAgenticLoop(cfg.agentic_mode, cfg.hint_match)

\* (mutant) the search stack is built at startup for the pipeline only
NeedsSearchStackForPipelineOnly == cfg.enable_web_research

\* needs_search_stack
NeedsSearchStack == cfg.enable_web_research \/ UseAgenticTools

\* ExaSearchClient() -> _build_exa_client raises RuntimeError without EXA_TOKEN
StartupFails ==
    /\ pc = "startup"
    /\ NeedsSearchStack /\ ~cfg.has_token
    /\ pc' = "aborted"
    /\ abort' = "missing_credential"
    /\ UNCHANGED <<exceptProcess, cfg, input_file, outfile, run, output_rows, rows_since_flush,
                   idx, cur, hist, written>>

Startup ==
    /\ pc = "startup"
    /\ ~(NeedsSearchStack /\ ~cfg.has_token)
    /\ LET input_rows == ReadCsv(input_file)
       IN \E rows \in RowsToProcessChoices(input_rows, cfg.limit, cfg.random_sample) :
            run' = [category_hint_text |-> FormatCategorySignature(cfg.category_suggestions),
                    use_agentic_tools |-> UseAgenticTools,
                    has_search_stack |-> NeedsSearchStack,
                    has_planner |-> cfg.enable_web_research,
                    has_summarizer |-> cfg.enable_web_research,
                    research_pipeline |->
                        IF cfg.enable_web_research /\ NeedsSearchStack
                        THEN ResearchPipeline(cfg.max_search_results, cfg.max_documents,
                                              FALSE, FALSE)
                        ELSE NoPipeline,
                    cached_rows |-> IF ~cfg.ignore_cache THEN LoadCachedRows(outfile)
                                    ELSE << >>,
                    original_headers |-> IF input_rows # << >> THEN input_file.header
                                         ELSE <<ADDRESS_COLUMN>>,
                    rows_to_process |-> rows,
                    batch_size |-> Max(1, cfg.batch_size)]
    /\ pc' = "loop"
    /\ UNCHANGED <<exceptProcess, cfg, input_file, outfile, abort, output_rows, rows_since_flush,
                   idx, cur, hist, written>>

\* ------------------------------------------------ process_file: the row loop
Row == run.rows_to_process[idx]
RowAddress == Strip(Get(Row, ADDRESS_COLUMN))
RowCompany == Strip(Get(Row, COMPANY_COLUMN))

\* cache_hit = cached_rows.get(cache_key) if cache_key else None
HasCacheHit(company, address) ==
    LET cache_key == CacheKey(company, address)
    IN cache_key # NoKey /\ cache_key \in DOMAIN run.cached_rows

CacheHit(company, address) == run.cached_rows[CacheKey(company, address)]

\* (mutant) reuse without comparing the category signature
CacheReusableAnySignature(company, address) == HasCacheHit(company, address)

\* `cache_hit and cache_hit.get("category_suggestions", "") == category_hint_text`
CacheReusable(company, address) ==
    /\ HasCacheHit(company, address)
    /\ Get(CacheHit(company, address), "category_suggestions") = run.category_hint_text

\* merged = {**row}, then every extra header the cached row has
MergeCached(row, cache_hit) ==
    [k \in DOMAIN row \cup (Range(OUTPUT_EXTRA_HEADERS) \cap DOMAIN cache_hit) |->
        IF k \in Range(OUTPUT_EXTRA_HEADERS) /\ k \in DOMAIN cache_hit
        THEN cache_hit[k] ELSE row[k]]

\* Should the batch be written after `n` rows since the last write
FlushDue(n) == n >= run.batch_size

HistEntry(cache_hit, c) ==
    [cache_hit |-> cache_hit,
     called |-> c.searched \/ c.fetched \/ c.inferred,
     classified |-> c.classify_passes > 0,
     model_result |-> c.model_result]

\* output_rows.append(merged); rows_since_flush += 1; the write when the batch
\* is full.  A ValueError of the write propagates out of process_file.
AppendAndFlush(merged, entry) ==
    LET rows == Append(output_rows, merged)
        w == WriteOutputCsv(rows, run.original_headers)
    IN /\ output_rows' = rows
       /\ hist' = Append(hist, entry)
       /\ cur' = NoCur
       /\ IF FlushDue(rows_since_flush + 1)
          THEN /\ outfile' = w.file
               /\ written' = w.written
               /\ IF w.raised
                  THEN /\ pc' = "aborted"
                       /\ abort' = "write_error"
                       /\ rows_since_flush' = rows_since_flush + 1
                       /\ idx' = idx
                  ELSE /\ pc' = "loop"
                       /\ abort' = abort
                       /\ rows_since_flush' = 0
                       /\ idx' = idx + 1
          ELSE /\ pc' = "loop"
               /\ rows_since_flush' = rows_since_flush + 1
               /\ idx' = idx + 1
               /\ UNCHANGED <<outfile, written, abort>>

\* The cache-hit branch of the loop body
CacheReuse ==
    /\ pc = "loop"
    /\ idx <= Len(run.rows_to_process)
    /\ CacheReusable(RowCompany, RowAddress)
    /\ AppendAndFlush(MergeCached(Row, CacheHit(RowCompany, RowAddress)),
                      HistEntry(TRUE, NoCur))
    /\ UNCHANGED <<exceptProcess, cfg, input_file, run>>

\* No reusable cached row: the row goes on to collection and classification
CacheMiss ==
    /\ pc = "loop"
    /\ idx <= Len(run.rows_to_process)
    /\ ~CacheReusable(RowCompany, RowAddress)
    /\ cur' = [NoCur EXCEPT !.company = RowCompany, !.address = RowAddress, !.pass = 1]
    /\ pc' = "collect"
    /\ UNCHANGED <<exceptProcess, cfg, input_file, outfile, abort, run, output_rows,
                   rows_since_flush, idx, hist, written>>

\* `if research_pipeline: ... collect_evidence(...)`, format_query_plan
FirstCollect ==
    /\ pc = "collect"
    /\ IF run.research_pipeline.present
       THEN \E ret \in CollectReturns(run.research_pipeline, cur.company, cur.address) :
              cur' = [cur EXCEPT !.evidence_docs = ret.docs,
                                 !.plan_summary = FormatQueryPlan(ret.plan),
                                 !.searched = @ \/ ret.search_calls > 0,
                                 !.fetched = @ \/ ret.fetch_calls > 0,
                                 !.inferred = @ \/ ret.model_calls > 0,
                                 !.collect_passes = @ + 1]
       ELSE cur' = [cur EXCEPT !.plan_summary = FormatQueryPlan(NoPlan)]
    /\ pc' = "summarize"
    /\ UNCHANGED <<exceptProcess, cfg, input_file, outfile, abort, run, output_rows,
                   rows_since_flush, idx, hist, written>>

\* EvidenceSummarizer.summarize as process_file sees it: the model's text
\* stripped (possibly empty), or the extractive fallback after a
\* RequestException
SummaryTexts == {<<"-", WS, "clue">>, Empty}

\* `if evidence_summarizer and evidence_docs: ... summarize(...)`
Summarize ==
    /\ pc = "summarize"
    /\ IF run.has_summarizer /\ cur.evidence_docs > 0
       THEN \E text \in SummaryTexts :
              cur' = [cur EXCEPT !.evidence_summary_text = text,
                                 !.inferred = TRUE,
                                 !.summarize_passes = @ + 1]
       ELSE cur' = cur
    /\ pc' = "classify"
    /\ UNCHANGED <<exceptProcess, cfg, input_file, outfile, abort, run, output_rows,
                   rows_since_flush, idx, hist, written>>

\* agent_config.enabled and agent_config.search_client and agent_config.page_fetcher
UseAgentic == run.use_agentic_tools /\ run.has_search_stack

\* model_result = run_model_on_address(...)
Classify ==
    /\ pc = "classify"
    /\ \E out \in RunModelOnAddress(cur.address, UseAgentic) :
         IF out.raised
         THEN /\ pc' = "aborted"
              /\ abort' = out.cause
              /\ cur' = [cur EXCEPT !.inferred = @ \/ out.model_calls > 0]
         ELSE /\ pc' = IF cur.pass = 1 THEN "escalate" ELSE "merge"
              /\ abort' = abort
              /\ cur' = [cur EXCEPT !.model_result = out.result,
                                    !.first_result = IF cur.pass = 1 THEN out.result ELSE @,
                                    !.first_plan_summary =
                                        IF cur.pass = 1 THEN cur.plan_summary ELSE @,
                                    !.first_summary_text =
                                        IF cur.pass = 1 THEN cur.evidence_summary_text ELSE @,
                                    !.first_summarize_passes =
                                        IF cur.pass = 1 THEN cur.summarize_passes ELSE @,
                                    !.inferred = @ \/ out.model_calls > 0,
                                    !.classify_passes = @ + 1]
    /\ UNCHANGED <<exceptProcess, cfg, input_file, outfile, run, output_rows,
                   rows_since_flush, idx, hist, written>>

\* ------------------------------------------------ process_file: escalation
\* (mutant) the limit without `max(..., base)`
ExpandedLimitNoFloor(override, base) ==
    IF override # NoInt THEN IntOf(override) ELSE base * 2

\* expanded_results / expanded_docs_limit: the override or twice the base
\* value, and never below the base value
ExpandedLimit(override, base) ==
    Max(IF override # NoInt THEN IntOf(override) ELSE base * 2, base)

\* current_max_results, current_max_documents
CurrentLimits ==
    IF run.research_pipeline.present
    THEN <<run.research_pipeline.max_search_results, run.research_pipeline.max_documents>>
    ELSE <<cfg.max_search_results, cfg.max_documents>>

\* should_expand
ShouldExpand(expanded_results, expanded_docs_limit, evidence_docs) ==
    LET current_expanded == IF run.research_pipeline.present
                            THEN run.research_pipeline.expanded_queries ELSE FALSE
    IN \/ ~current_expanded
       \/ expanded_results > CurrentLimits[1]
       \/ expanded_docs_limit > CurrentLimits[2]
       \/ evidence_docs = 0

\* can_expand
CanExpand(model_result) == NeedsExpandedSearch(model_result) /\ run.has_search_stack

\* (mutant) the expanded pass without query expansion
ExpandedPipelinePlainQueries ==
    ResearchPipeline(ExpandedLimit(cfg.expanded_search_results, cfg.max_search_results),
                     ExpandedLimit(cfg.expanded_max_documents, cfg.max_documents),
                     run.has_planner, FALSE)

\* The pipeline of the expanded pass
ExpandedPipeline ==
    ResearchPipeline(ExpandedLimit(cfg.expanded_search_results, cfg.max_search_results),
                     ExpandedLimit(cfg.expanded_max_documents, cfg.max_documents),
                     run.has_planner, TRUE)

\* plan_summary after an expanded pass that found documents
ExpandedPlanSummary(plan_summary, new_plan_summary) ==
    IF plan_summary # Empty /\ new_plan_summary # Empty /\ new_plan_summary # plan_summary
    THEN plan_summary \o <<WS, "||", WS, "Expanded:", WS>> \o new_plan_summary
    ELSE IF new_plan_summary # Empty
    THEN <<"Expanded:", WS>> \o new_plan_summary
    ELSE plan_summary

\* (mutant) the second pass is run whatever the expanded collection returned
NewEvidenceAlways(new_evidence_docs) == TRUE

\* `if new_evidence_docs:`
NewEvidence(new_evidence_docs) == new_evidence_docs > 0

\* `if can_expand: ... if should_expand: ... collect_evidence ... if new_evidence_docs:`
Escalate ==
    /\ pc = "escalate"
    /\ IF CanExpand(cur.model_result)
          /\ ShouldExpand(ExpandedPipeline.max_search_results,
                          ExpandedPipeline.max_documents, cur.evidence_docs)
       THEN \E ret \in CollectReturns(ExpandedPipeline, cur.company, cur.address) :
              LET c == [cur EXCEPT !.searched = @ \/ ret.search_calls > 0,
                                   !.fetched = @ \/ ret.fetch_calls > 0,
                                   !.inferred = @ \/ ret.model_calls > 0,
                                   !.collect_passes = @ + 1,
                                   !.expansions = @ + 1,
                                   !.new_evidence_docs = ret.docs,
                                   !.expanded_pipeline = ExpandedPipeline]
              IN IF NewEvidence(ret.docs)
                 THEN /\ cur' = [c EXCEPT !.evidence_docs = ret.docs,
                                          !.plan_summary =
                                              ExpandedPlanSummary(cur.plan_summary,
                                                                  FormatQueryPlan(ret.plan)),
                                          !.pass = 2]
                      /\ pc' = "summarize"
                 ELSE /\ cur' = c
                      /\ pc' = "merge"
       ELSE /\ cur' = cur
            /\ pc' = "merge"
    /\ UNCHANGED <<exceptProcess, cfg, input_file, outfile, abort, run, output_rows,
                   rows_since_flush, idx, hist, written>>

\* merged = {**row, **model_result} and the three optional columns
MergeResult(row, model_result, plan_summary, evidence_summary_text, category_hint_text) ==
    LET m0 == DictMerge(row, model_result)
        m1 == IF plan_summary # Empty THEN DictSet(m0, "query_plan", plan_summary) ELSE m0
        m2 == IF evidence_summary_text # Empty
              THEN DictSet(m1, "evidence_summary", evidence_summary_text) ELSE m1
    IN IF category_hint_text # Empty
       THEN DictSet(m2, "category_suggestions", category_hint_text)
       ELSE IF "category_suggestions" \notin DOMAIN m2
       THEN DictSet(m2, "category_suggestions", Empty)
       ELSE m2

\* The end of the loop body for a classified row
Merge ==
    /\ pc = "merge"
    /\ AppendAndFlush(MergeResult(Row, cur.model_result, cur.plan_summary,
                                  cur.evidence_summary_text, run.category_hint_text),
                      HistEntry(FALSE, cur))
    /\ UNCHANGED <<exceptProcess, cfg, input_file, run>>

\* After the loop: the last partial batch, or an empty output file
Finish ==
    /\ pc = "loop"
    /\ idx > Len(run.rows_to_process)
    /\ LET w == WriteOutputCsv(output_rows, run.original_headers)
       IN IF output_rows # << >> /\ rows_since_flush = 0
          THEN /\ pc' = "done"
               /\ UNCHANGED <<outfile, written, abort>>
          ELSE /\ outfile' = w.file
               /\ written' = w.written
               /\ pc' = IF w.raised THEN "aborted" ELSE "done"
               /\ abort' = IF w.raised THEN "write_error" ELSE abort
    /\ UNCHANGED <<exceptProcess, cfg, input_file, run, output_rows, rows_since_flush, idx, cur, hist>>

Next ==
    \/ StartupFails
    \/ Startup
    \/ CacheReuse
    \/ CacheMiss
    \/ FirstCollect
    \/ Summarize
    \/ Classify
    \/ Escalate
    \/ Merge
    \/ Finish

Spec == Init /\ [][Next]_vars

SpecSampled == InitSampled /\ [][Next]_vars

SpecEscalation == InitEscalation /\ [][Next]_vars

\* ------------------------------------ research.py: one collect_evidence call
\* What the backend answers to one search: the URLs of its items, in order
\* (an item may have no URL, a URL may come twice, the list may be empty, as
\* it is after an exception inside ExaSearchClient.search)
SearchHits == {<< >>, <<"a">>, <<"a", "b">>, <<"b", "a">>, <<"", "c">>, <<"a", "a">>}

\* ExaSearchClient.search: items without a URL are skipped, at most `limit`
\* results are kept; the title tells which query found the item
RECURSIVE SearchResults(_, _, _)
SearchResults(hits, query, limit) ==
    IF hits = << >> \/ limit = 0 THEN << >>
    ELSE IF Head(hits) = "" THEN SearchResults(Tail(hits), query, limit)
    ELSE <<[url |-> Head(hits), title |-> query, snippet |-> Empty]>>
         \o SearchResults(Tail(hits), query, limit - 1)

\* _safe_search: the results and the number of search calls made
SafeSearch(query, max_search_results) ==
    IF query = Empty THEN {[results |-> << >>, calls |-> 0]}
    ELSE {[results |-> SearchResults(hits, query, Max(1, Min(20, max_search_results))),
           calls |-> 1] : hits \in SearchHits}

\* _fetch_document: content from the primary fetch ("primary"), nothing from
\* a primary fetch that did not raise ("empty"), content from the fallback
\* after the primary raised ("fallback"), or nothing from either ("none");
\* each attempt counts one fetch call
FetchOutcomes == {"primary", "empty", "fallback", "none"}
PrimaryRaised(outcome) == outcome \in {"fallback", "none"}

FetchDocument(result, outcome) ==
    [docs |-> IF outcome \in {"empty", "none"} THEN << >>
              ELSE <<[url |-> result.url, title |-> result.title,
                      snippet |-> result.snippet, content |-> <<outcome>>]>>,
     calls |-> IF PrimaryRaised(outcome) THEN 2 ELSE 1]

\* the loop over aggregated_results with seen_urls
RECURSIVE DedupByUrl(_, _, _)
DedupByUrl(results, seen_urls, candidates) ==
    IF results = << >> THEN candidates
    ELSE IF Head(results).url \in seen_urls
    THEN DedupByUrl(Tail(results), seen_urls, candidates)
    ELSE DedupByUrl(Tail(results), seen_urls \cup {Head(results).url},
                    Append(candidates, Head(results)))

\* (mutant) every aggregated result becomes a fetch candidate
FetchCandidatesNoDedup(aggregated_results) == aggregated_results

\* fetch_candidates
FetchCandidates(aggregated_results) == DedupByUrl(aggregated_results, {}, << >>)

\* (mutant) the quota test one document late
QuotaReachedLate(documents, max_documents) == Len(documents) > max_documents

\* `if len(documents) >= self.max_documents: break`
QuotaReached(documents, max_documents) == Len(documents) >= max_documents

\* search_workers, fetch_workers
SearchWorkers(queries, pipeline) == Min(Len(queries), pipeline.max_workers)
FetchWorkers(pipeline) == Min(pipeline.max_workers, Max(1, pipeline.max_documents * 2))

\* executor.submit for every item: the futures, none started yet
Submit(items) ==
    [i \in DOMAIN items |-> [item |-> items[i], state |-> "queued",
                             value |-> << >>, calls |-> 0]]

Running == {i \in DOMAIN pool : pool[i].state = "running"}
Queued == {i \in DOMAIN pool : pool[i].state = "queued"}
AllCollected(p) == \A i \in DOMAIN p : p[i].state = "collected"
AllFinished == \A i \in DOMAIN pool : pool[i].state \in {"done", "collected"}

\* A free worker thread takes the oldest queued work item
WorkerTakes(i) ==
    /\ i \in Queued
    /\ \A j \in Queued : i <= j
    /\ Cardinality(Running) < ce.workers

\* The calls made with empty or non-empty input
CollectCalls ==
    {[NoCall EXCEPT !.pc = "entry", !.company = c, !.address = a,
                    !.pipeline = ResearchPipeline(msr, md, pl, ex)] :
        c \in {Empty, <<"acme">>},
        a \in {Empty, <<"1", WS, "main", ",", WS, "springfield">>},
        msr \in {1, MaxCfg}, md \in 0..MaxCfg, pl \in BOOLEAN, ex \in BOOLEAN}
    \cup {[NoCall EXCEPT !.pc = "entry", !.company = <<WS>>,
                         !.pipeline = ResearchPipeline(1, 1, FALSE, FALSE)]}

InitCollect ==
    /\ InitProcess({MkCfg(TRUE, <<"off", TRUE>>, << >>, 1, 1, 1, NoInt, NoInt, TRUE)},
                   {EscalationFile(<<RowAcme>>)}, {NoFile})
    /\ ce \in CollectCalls
    /\ pool = << >>
    /\ backend = NoBackendCalls
    /\ agent = NoAgentRun
    /\ planner = NoPlanning
    /\ parse = NoParse
    /\ summary = NoSummary
    /\ rm = NoRunModel

\* collect_evidence up to the search fan-out: the early return, the queries,
\* the plan, and the submission of the searches when there are several
Begin ==
    /\ ce.pc = "entry"
    /\ IF MissingInput(ce.company, ce.address)
       THEN /\ ce' = [ce EXCEPT !.pc = "returned", !.plan = MissingPlan]
            /\ UNCHANGED <<pool, backend>>
       ELSE LET base_queries == BuildQueries(ce.company, ce.address,
                                             ce.pipeline.expanded_queries)
                plans == IF ce.pipeline.has_planner
                         THEN {p.plan : p \in PlanQueriesReturns(base_queries)}
                         ELSE {HeuristicPlan(base_queries)}
            IN \E plan \in plans :
                 LET queries == IF plan.queries # << >> THEN plan.queries
                                ELSE base_queries
                     search_workers == SearchWorkers(queries, ce.pipeline)
                 IN /\ ce' = [ce EXCEPT !.plan = plan,
                                        !.queries = queries,
                                        !.workers = search_workers,
                                        !.pc = IF search_workers > 1 THEN "search_pool"
                                               ELSE IF queries = << >> THEN "dedup"
                                               ELSE "search_seq"]
                    /\ pool' = IF search_workers > 1 THEN Submit(queries) ELSE << >>
                    /\ backend' = [backend EXCEPT !.planner =
                                      IF ce.pipeline.has_planner THEN @ + 1 ELSE @]
    /\ UNCHANGED exceptCollect

\* `for query in queries:` in the calling thread (search_workers <= 1)
SearchSequential ==
    /\ ce.pc = "search_seq"
    /\ \E r \in SafeSearch(ce.queries[ce.next_query], ce.pipeline.max_search_results) :
         /\ ce' = [ce EXCEPT !.aggregated_results = @ \o r.results,
                             !.search_call_count = @ + r.calls,
                             !.next_query = @ + 1,
                             !.pc = IF ce.next_query = Len(ce.queries) THEN "dedup"
                                    ELSE "search_seq"]
         /\ backend' = [backend EXCEPT !.search = @ + r.calls]
    /\ UNCHANGED <<pool, exceptCollect>>

\* A worker thread starts _safe_search(query)
SearchStart(i) ==
    /\ ce.pc = "search_pool"
    /\ WorkerTakes(i)
    /\ pool' = [pool EXCEPT ![i].state = "running"]
    /\ backend' = [backend EXCEPT !.search =
                      IF pool[i].item = Empty THEN @ ELSE @ + 1]
    /\ UNCHANGED <<ce, exceptCollect>>

\* _safe_search(query) returns in its worker thread
SearchFinish(i) ==
    /\ ce.pc = "search_pool"
    /\ i \in Running
    /\ \E r \in SafeSearch(pool[i].item, ce.pipeline.max_search_results) :
         pool' = [pool EXCEPT ![i].state = "done", ![i].value = r.results,
                              ![i].calls = r.calls]
    /\ UNCHANGED <<ce, backend, exceptCollect>>

\* `for future in as_completed(future_map):` takes a finished search
SearchCollect(i) ==
    /\ ce.pc = "search_pool"
    /\ i \in DOMAIN pool
    /\ pool[i].state = "done"
    /\ pool' = [pool EXCEPT ![i].state = "collected"]
    /\ ce' = [ce EXCEPT !.aggregated_results = @ \o pool[i].value,
                        !.search_call_count = @ + pool[i].calls,
                        !.pc = IF AllCollected(pool') THEN "dedup" ELSE "search_pool"]
    /\ UNCHANGED <<backend, exceptCollect>>

\* The de-duplication by URL, the return when nothing is left to fetch, and
\* the submission of the fetches.  fetch_workers is max_documents * 2, at
\* least 2, so the fetches always go through the executor.
Dedup ==
    /\ ce.pc = "dedup"
    /\ LET fetch_candidates == FetchCandidates(ce.aggregated_results)
       IN IF fetch_candidates = << >>
          THEN /\ ce' = [ce EXCEPT !.pc = "returned"]
               /\ pool' = << >>
          ELSE /\ ce' = [ce EXCEPT !.fetch_candidates = fetch_candidates,
                                   !.workers = FetchWorkers(ce.pipeline),
                                   !.pc = "fetch_pool"]
               /\ pool' = Submit(fetch_candidates)
    /\ UNCHANGED <<backend, exceptCollect>>

\* A worker thread starts _fetch_document(item): the primary fetch.  The
\* executor's exit waits for queued work too, so this goes on after the break.
FetchStart(i) ==
    /\ ce.pc \in {"fetch_pool", "drain"}
    /\ WorkerTakes(i)
    /\ pool' = [pool EXCEPT ![i].state = "running"]
    /\ backend' = [backend EXCEPT !.primary[pool[i].item.url] = @ + 1]
    /\ UNCHANGED <<ce, exceptCollect>>

\* _fetch_document(item) appending its document and its calls to the shared
\* list and counter from the worker thread
FetchFinishWritesShared(i) ==
    /\ ce.pc \in {"fetch_pool", "drain"}
    /\ i \in Running
    /\ \E outcome \in FetchOutcomes :
         LET r == FetchDocument(pool[i].item, outcome)
         IN /\ pool' = [pool EXCEPT ![i].state = "done", ![i].value = r.docs,
                                    ![i].calls = r.calls]
            /\ ce' = [ce EXCEPT !.documents = @ \o r.docs,
                                !.fetch_call_count = @ + r.calls]
            /\ backend' = [backend EXCEPT !.fallback[pool[i].item.url] =
                              IF PrimaryRaised(outcome) THEN @ + 1 ELSE @]
    /\ UNCHANGED exceptCollect

\* _fetch_document(item) returns in its worker thread
FetchFinish(i) ==
    /\ ce.pc \in {"fetch_pool", "drain"}
    /\ i \in Running
    /\ \E outcome \in FetchOutcomes :
         LET r == FetchDocument(pool[i].item, outcome)
         IN /\ pool' = [pool EXCEPT ![i].state = "done", ![i].value = r.docs,
                                    ![i].calls = r.calls]
            /\ backend' = [backend EXCEPT !.fallback[pool[i].item.url] =
                              IF PrimaryRaised(outcome) THEN @ + 1 ELSE @]
    /\ UNCHANGED <<ce, exceptCollect>>

\* (mutant) the loop also stops at the first fetch that gave no document
FetchCollectStopsAtFirstMiss(i) ==
    /\ ce.pc = "fetch_pool"
    /\ i \in DOMAIN pool
    /\ pool[i].state = "done"
    /\ IF QuotaReached(ce.documents, ce.pipeline.max_documents)
       THEN /\ ce' = [ce EXCEPT !.pc = "drain"]
            /\ pool' = pool
       ELSE /\ pool' = [pool EXCEPT ![i].state = "collected"]
            /\ ce' = [ce EXCEPT !.documents = @ \o pool[i].value,
                                !.fetch_call_count = @ + pool[i].calls,
                                !.pc = IF AllCollected(pool') \/ pool[i].value = << >>
                                       THEN "drain" ELSE "fetch_pool"]
    /\ UNCHANGED <<backend, exceptCollect>>

\* `for future in as_completed(futures):` yields a finished fetch: the break
\* when the quota is met, else the result is taken
FetchCollect(i) ==
    /\ ce.pc = "fetch_pool"
    /\ i \in DOMAIN pool
    /\ pool[i].state = "done"
    /\ IF QuotaReached(ce.documents, ce.pipeline.max_documents)
       THEN /\ ce' = [ce EXCEPT !.pc = "drain"]
            /\ pool' = pool
       ELSE /\ pool' = [pool EXCEPT ![i].state = "collected"]
            /\ ce' = [ce EXCEPT !.documents = @ \o pool[i].value,
                                !.fetch_call_count = @ + pool[i].calls,
                                !.pc = IF AllCollected(pool') THEN "drain"
                                       ELSE "fetch_pool"]
    /\ UNCHANGED <<backend, exceptCollect>>

\* The end of the `with` block (it waits for every future) and the return
FetchReturn ==
    /\ ce.pc = "drain"
    /\ AllFinished
    /\ ce' = [ce EXCEPT !.pc = "returned"]
    /\ UNCHANGED <<pool, backend, exceptCollect>>

NextCollect ==
    \/ Begin
    \/ SearchSequential
    \/ \E i \in DOMAIN pool : SearchStart(i)
    \/ \E i \in DOMAIN pool : SearchFinish(i)
    \/ \E i \in DOMAIN pool : SearchCollect(i)
    \/ Dedup
    \/ \E i \in DOMAIN pool : FetchStart(i)
    \/ \E i \in DOMAIN pool : FetchFinish(i)
    \/ \E i \in DOMAIN pool : FetchCollect(i)
    \/ FetchReturn

SpecCollect == InitCollect /\ [][NextCollect]_vars

\* ------------------------------------------- agentic.py: ToolAgent.classify
AgentInit ==
    /\ InitProcess({MkCfg(TRUE, <<"on", FALSE>>, << >>, 1, 1, 1, NoInt, NoInt, TRUE)},
                   {EscalationFile(<<RowAcme>>)}, {NoFile})
    /\ ce = NoCall
    /\ pool = << >>
    /\ backend = NoBackendCalls
    /\ planner = NoPlanning
    /\ parse = NoParse
    /\ summary = NoSummary
    /\ rm = NoRunModel
    /\ agent \in {StartAgent(n) : n \in 0..MaxIterations}

\* One turn of `for iteration in range(self.max_iterations)`: the chat call,
\* and what follows from its reply up to the tool loop.  An empty message
\* breaks out of the loop, to the raise after it.
AgentChat ==
    /\ agent.pc = "awaiting_model"
    /\ agent.iteration < agent.max_iterations
    /\ \E reply \in ChatReplies :
         LET message == reply.message
             final_text == ExtractContent(message.content)
             called == [agent EXCEPT !.model_calls = @ + 1,
                                     !.last_reply = ReplyKind(reply)]
         IN agent' =
              IF reply.raised \/ IsEmptyMessage(message)
              THEN [called EXCEPT !.pc = "raised", !.error = "ToolAgentError",
                                  !.only_tool_calls = FALSE]
              ELSE IF message.tool_calls # << >>
              THEN [called EXCEPT !.pc = "tool_executing",
                                  !.messages = Append(@, message),
                                  !.pending = message.tool_calls,
                                  !.only_tool_calls = @ /\ final_text = Empty]
              ELSE IF final_text # Empty
              THEN [called EXCEPT !.pc = "done",
                                  !.messages = Append(@, message),
                                  !.final_text = final_text,
                                  !.only_tool_calls = FALSE]
              ELSE [called EXCEPT !.messages = Append(@, message),
                                  !.iteration = @ + 1,
                                  !.only_tool_calls = FALSE]
    /\ UNCHANGED exceptAgent

\* `for call in tool_calls:` one call: _execute_tool and the tool message; an
\* exception of _execute_tool leaves classify.  After the last call: continue.
AgentTool ==
    /\ agent.pc = "tool_executing"
    /\ LET call == Head(agent.pending)
       IN \E backend_ok \in (IF UsesBackend(call) THEN BOOLEAN ELSE {TRUE}) :
            LET tool_output == ExecuteTool(call, backend_ok)
                ran == [agent EXCEPT !.tool_runs = @ + 1]
            IN agent' =
                 IF tool_output.raised # "none"
                 THEN [ran EXCEPT !.pc = "raised", !.error = tool_output.raised]
                 ELSE [ran EXCEPT
                          !.messages = Append(@, ToolMessage(call, tool_output)),
                          !.pending = Tail(@),
                          !.iteration = IF Tail(agent.pending) = << >> THEN @ + 1 ELSE @,
                          !.pc = IF Tail(agent.pending) = << >> THEN "awaiting_model"
                                 ELSE "tool_executing"]
    /\ UNCHANGED exceptAgent

\* `raise ToolAgentError("Agent loop exhausted without final response.")`
AgentExhausted ==
    /\ agent.pc = "awaiting_model"
    /\ agent.iteration >= agent.max_iterations
    /\ agent' = [agent EXCEPT !.pc = "raised", !.error = "ToolAgentError"]
    /\ UNCHANGED exceptAgent

NextAgent ==
    \/ AgentChat
    \/ AgentTool
    \/ AgentExhausted

SpecAgent == AgentInit /\ [][NextAgent]_vars

\* ------------------------------- classification.py: _parse_model_response
\* The raw outputs a model can give, up to MaxRaw pieces
RawOutputs == SeqsUpTo(JsonTokens, MaxRaw)

ParseInit ==
    /\ InitProcess({MkCfg(FALSE, <<"off", TRUE>>, << >>, 1, 1, 1, NoInt, NoInt, TRUE)},
                   {EscalationFile(<<RowAcme>>)}, {NoFile})
    /\ ce = NoCall
    /\ pool = << >>
    /\ backend = NoBackendCalls
    /\ agent = NoAgentRun
    /\ planner = NoPlanning
    /\ summary = NoSummary
    /\ rm = NoRunModel
    /\ parse \in {[NoParse EXCEPT !.pc = "called", !.raw_output = raw] : raw \in RawOutputs}

\* _parse_model_response(raw_output): it returns a result or raises
ParseCall ==
    /\ parse.pc = "called"
    /\ LET outcome == ParseRawOutput(parse.raw_output)
       IN parse' = [parse EXCEPT !.pc = IF outcome.raised = "none" THEN "returned" ELSE "raised",
                                 !.raised = outcome.raised,
                                 !.result = outcome.result]
    /\ UNCHANGED exceptParse

NextParse == ParseCall

SpecParse == ParseInit /\ [][NextParse]_vars

\* ------------------------------------- planning.py: QueryPlanner.plan_queries
\* The calls: the planner's limits, and the company and address whose
\* default queries build_queries gives
PlanningCalls ==
    {StartPlanning(mq, mr, c, a, BuildQueries(c, a, ex)) :
        mq \in 0..MaxCfg, mr \in 0..MaxRetries,
        c \in {<<WS>>, <<"acme">>},
        a \in {Empty, <<"1", WS, "main", ",", WS, "springfield">>},
        ex \in BOOLEAN}

PlannerInit ==
    /\ InitProcess({MkCfg(TRUE, <<"off", TRUE>>, << >>, 1, 1, 1, NoInt, NoInt, TRUE)},
                   {EscalationFile(<<RowAcme>>)}, {NoFile})
    /\ ce = NoCall
    /\ pool = << >>
    /\ backend = NoBackendCalls
    /\ agent = NoAgentRun
    /\ parse = NoParse
    /\ summary = NoSummary
    /\ rm = NoRunModel
    /\ planner \in PlanningCalls

\* One turn of `for attempt in range(self.max_retries)`: the model call, the
\* parse of what it returned and the choice of the plan; a plan with queries
\* breaks out of the loop
PlannerAttempt ==
    /\ planner.pc = "loop"
    /\ planner.attempt < planner.max_retries
    /\ \E outcome \in CallModelOutcomes :
         LET parsed == ParsePlan(outcome.raw)
             candidate == [parsed.plan EXCEPT !.raw_plan = outcome.raw, !.used_model = TRUE]
             next_pc == IF planner.attempt + 1 < planner.max_retries THEN "loop"
                        ELSE "after_loop"
             called == [planner EXCEPT !.model_calls = @ + outcome.calls,
                                       !.attempt = @ + 1]
         IN planner' =
              IF outcome.raised
              THEN [called EXCEPT
                      !.plan = QueryPlan(<< >>, RequestFailedRationale, EmptyRaw, FALSE),
                      !.outcomes = Append(@, "request_failed"),
                      !.pc = next_pc]
              ELSE IF parsed.raised # "none"
              THEN [called EXCEPT !.last_raw = outcome.raw, !.has_last_raw = TRUE,
                                  !.outcomes = Append(@, "not_an_object"),
                                  !.error = parsed.raised,
                                  !.pc = "raised"]
              ELSE IF candidate.queries # << >>
              THEN [called EXCEPT !.last_raw = outcome.raw, !.has_last_raw = TRUE,
                                  !.plan = candidate,
                                  !.outcomes = Append(@, "queries"),
                                  !.pc = "after_loop"]
              ELSE [called EXCEPT !.last_raw = outcome.raw, !.has_last_raw = TRUE,
                                  !.plan = candidate,
                                  !.outcomes =
                                      Append(@, IF DecodesAsJson(StripMarkdownFence(outcome.raw))
                                                THEN "no_queries" ELSE "invalid_json"),
                                  !.pc = next_pc]
    /\ UNCHANGED exceptPlanner

\* After the loop: the defaults when the plan has no queries, the removal of
\* blank queries, the truncation, and the return
PlannerReturn ==
    /\ planner.pc = "after_loop"
    /\ planner' = [planner EXCEPT
                      !.plan = PlanAfterLoop(planner.plan, planner.default_queries,
                                             planner.max_queries),
                      !.pc = "returned"]
    /\ UNCHANGED exceptPlanner

NextPlanner == PlannerAttempt \/ PlannerReturn

SpecPlanner == PlannerInit /\ [][NextPlanner]_vars

\* ------------------------------ summarizer.py: EvidenceSummarizer.summarize
\* The documents of an evidence list: with title and snippet, with a blank
\* snippet, and with neither
EvidenceDocs == {Doc(<<"Acme">>, <<"plant">>), Doc(<<"Bolt">>, <<WS>>), Doc(Empty, Empty)}

SummarizeInit ==
    /\ InitProcess({MkCfg(TRUE, <<"off", TRUE>>, << >>, 1, 1, 1, NoInt, NoInt, TRUE)},
                   {EscalationFile(<<RowAcme>>)}, {NoFile})
    /\ ce = NoCall
    /\ pool = << >>
    /\ backend = NoBackendCalls
    /\ agent = NoAgentRun
    /\ planner = NoPlanning
    /\ parse = NoParse
    /\ summary \in {[NoSummary EXCEPT !.pc = "called", !.evidence = evidence,
                                      !.max_documents = Max(1, max_documents)] :
                      evidence \in SeqsUpTo(EvidenceDocs, MaxEvidence + 1),
                      max_documents \in 0..MaxCfg}
    /\ rm = NoRunModel

\* summarize(company, address, evidence): the model is called when there is
\* evidence, and the EvidenceSummary is returned
SummarizeCall ==
    /\ summary.pc = "called"
    /\ \E reply \in SummarizerReplies :
         /\ summary.evidence = << >> => reply = [raised |-> FALSE, raw |-> Empty]
         /\ summary' = [summary EXCEPT
                           !.pc = "returned",
                           !.reply = reply,
                           !.result = SummarizeEvidence(summary.evidence,
                                                        summary.max_documents, reply)]
    /\ UNCHANGED exceptSummarize

NextSummarize == SummarizeCall

SpecSummarize == SummarizeInit /\ [][NextSummarize]_vars

\* ------------------------------------ run_model_on_address, step by step
RunModelCalls ==
    {[NoRunModel EXCEPT !.pc = "entry", !.company_name = c, !.address = a,
                        !.agent_config = ac, !.agent_script = script,
                        !.agent_reply = r] :
        c \in {Empty, <<"acme">>},
        a \in {Empty, <<"1", WS, "main">>},
        ac \in {NoAgenticConfig}
               \cup {AgenticConfig(e, sc, pf) : e, sc, pf \in BOOLEAN},
        script \in AgentScripts,
        r \in Replies}

RunModelInit ==
    /\ InitProcess({MkCfg(TRUE, <<"off", TRUE>>, << >>, 1, 1, 1, NoInt, NoInt, TRUE)},
                   {EscalationFile(<<RowAcme>>)}, {NoFile})
    /\ ce = NoCall
    /\ pool = << >>
    /\ backend = NoBackendCalls
    /\ agent = NoAgentRun
    /\ planner = NoPlanning
    /\ parse = NoParse
    /\ summary = NoSummary
    /\ rm \in RunModelCalls

\* `if not address:` returns the stub; else agentic mode or the single shot
RunModelEntry ==
    /\ rm.pc = "entry"
    /\ rm' = IF rm.address = Empty
             THEN [rm EXCEPT !.pc = "returned", !.result = StubResult]
             ELSE IF UseAgenticConfig(rm.agent_config)
             THEN [rm EXCEPT !.pc = "agent"]
             ELSE [rm EXCEPT !.pc = "generate_json"]
    /\ UNCHANGED exceptRunModel

\* tool_agent.classify(company_name=, address=, categories=) and its
\* `except ToolAgentError`
RunModelAgent ==
    /\ rm.pc = "agent"
    /\ \E o \in AgentCallOutcomes :
         rm' = CASE o = "final" ->
                      [rm EXCEPT !.pc = "returned", !.agent_calls = @ + 1,
                                 !.agent_outcome = "final",
                                 !.result = ParseModelResponse(rm.agent_reply)]
                 [] o = "tool_agent_error" ->
                      [rm EXCEPT !.pc = "generate_json", !.agent_calls = @ + 1,
                                 !.agent_outcome = "tool_agent_error"]
                 [] OTHER ->
                      [rm EXCEPT !.pc = "raised", !.agent_calls = @ + 1,
                                 !.agent_outcome = o,
                                 !.raised = "agent_invocation"]
    /\ UNCHANGED exceptRunModel

\* (mutant) the first generate call retried after any failure
RunModelGenerateJsonRetriesAll ==
    /\ rm.pc = "generate_json"
    /\ \E response \in GenerateResponses :
         LET called == [rm EXCEPT !.generate_options = Append(@, "json"),
                                  !.errors = Append(@, response.error)]
         IN rm' = IF response.error = "none"
                  THEN [called EXCEPT !.pc = "returned",
                                      !.result = ParseModelResponse(response.reply)]
                  ELSE [called EXCEPT !.pc = "generate_plain"]
    /\ UNCHANGED exceptRunModel

\* client.generate(..., options=json_options) and its `except HTTPError`
RunModelGenerateJson ==
    /\ rm.pc = "generate_json"
    /\ \E response \in GenerateResponses :
         LET called == [rm EXCEPT !.generate_options = Append(@, "json"),
                                  !.errors = Append(@, response.error)]
         IN rm' = IF response.error = "none"
                  THEN [called EXCEPT !.pc = "returned",
                                      !.result = ParseModelResponse(response.reply)]
                  ELSE IF response.error = "HTTPError"
                  THEN [called EXCEPT !.pc = "generate_plain"]
                  ELSE [called EXCEPT !.pc = "raised", !.raised = "inference_error"]
    /\ UNCHANGED exceptRunModel

\* client.generate(..., options=base_options) in the except clause
RunModelGeneratePlain ==
    /\ rm.pc = "generate_plain"
    /\ \E response \in GenerateResponses :
         LET called == [rm EXCEPT !.generate_options = Append(@, "plain"),
                                  !.errors = Append(@, response.error)]
         IN rm' = IF response.error = "none"
                  THEN [called EXCEPT !.pc = "returned",
                                      !.result = ParseModelResponse(response.reply)]
                  ELSE [called EXCEPT !.pc = "raised", !.raised = "inference_error"]
    /\ UNCHANGED exceptRunModel

NextRunModel ==
    \/ RunModelEntry
    \/ RunModelAgent
    \/ RunModelGenerateJson
    \/ RunModelGeneratePlain

SpecRunModel == RunModelInit /\ [][NextRunModel]_vars

\* ================================================================== claims
\* The spec's normalisation of a (company, address) key: trimmed, lower-cased
SameNormalizedKey(a, b) ==
    /\ Lower(Strip(Get(a, COMPANY_COLUMN))) = Lower(Strip(Get(b, COMPANY_COLUMN)))
    /\ Lower(Strip(Get(a, ADDRESS_COLUMN))) = Lower(Strip(Get(b, ADDRESS_COLUMN)))

CachedRowsFor(row) ==
    {c \in Range(run.cached_rows) : SameNormalizedKey(row, c)}

StoredSignature(c) == Get(c, "category_suggestions")

RowInProgress == pc \in {"collect", "summarize", "classify", "escalate", "merge"}

ClassificationColumns == {"site_type", "confidence", "notes", "raw_model_output"}

\* C1: a row whose key has a cached row with the current category signature is
\* emitted with the cached row's extra columns and its own input columns, and
\* no search, fetch or model call is made for it (it never enters collection
\* or classification).
C1_CacheReuse ==
    /\ \A i \in 1..Len(output_rows) :
         \A c \in CachedRowsFor(run.rows_to_process[i]) :
            StoredSignature(c) = run.category_hint_text =>
               /\ hist[i].cache_hit
               /\ ~hist[i].called
               /\ \A h \in Range(OUTPUT_EXTRA_HEADERS) \cap DOMAIN c :
                     output_rows[i][h] = c[h]
               /\ \A k \in DOMAIN run.rows_to_process[i] \ Range(OUTPUT_EXTRA_HEADERS) :
                     output_rows[i][k] = run.rows_to_process[i][k]
    /\ RowInProgress =>
         \A c \in CachedRowsFor(Row) : StoredSignature(c) # run.category_hint_text

\* C1 witness: a cached row was reused for an input row whose company is
\* written differently from the cached one
C1_Witness ==
    \E i \in 1..Len(output_rows) :
        /\ hist[i].cache_hit
        /\ output_rows[i]["site_type"] = <<"office">>
        /\ \E c \in CachedRowsFor(run.rows_to_process[i]) :
              c[COMPANY_COLUMN] # run.rows_to_process[i][COMPANY_COLUMN]

\* C2: a row whose cached row carries another category signature is not
\* reused: it was classified in this run and its output row carries the
\* result computed in this run.
C2_CacheInvalidation ==
    \A i \in 1..Len(output_rows) :
        \A c \in CachedRowsFor(run.rows_to_process[i]) :
            StoredSignature(c) # run.category_hint_text =>
               /\ ~hist[i].cache_hit
               /\ hist[i].classified
               /\ \A f \in ClassificationColumns :
                     output_rows[i][f] = hist[i].model_result[f]

\* C2 witness: a cached "office" row with another signature was reclassified
\* as a warehouse
C2_Witness ==
    \E i \in 1..Len(output_rows) :
        \E c \in CachedRowsFor(run.rows_to_process[i]) :
            /\ StoredSignature(c) # run.category_hint_text
            /\ c["site_type"] = <<"office">>
            /\ output_rows[i]["site_type"] = <<"warehouse">>

\* C3: the rows completed in this run and not yet in the output file number
\* fewer than the batch size (clamped to at least 1).
C3_UnwrittenBelowBatch == Len(output_rows) - written < Max(1, cfg.batch_size)

\* C3, where the input file has a category_suggestions column, so that the
\* write of a classified row does not raise
C3_WithCategoryColumn ==
    "category_suggestions" \in Range(input_file.header) => C3_UnwrittenBelowBatch

\* C4: no failure of a search, fetch or inference call made for a row
\* propagates out of the row loop.
C4_NoRowFailureAborts == abort # "inference_error"

\* C5: during and after every collect_evidence call, whatever the order in
\* which the fetches complete, the evidence list holds at most max_documents
\* documents.
C5_QuotaNeverExceeded ==
    ce.pc # "idle" => Len(ce.documents) <= ce.pipeline.max_documents

\* C5 witness: the call returned a full evidence list and left out a document
\* that a fetch had produced
C5_Witness ==
    /\ ce.pc = "returned"
    /\ Len(ce.documents) = ce.pipeline.max_documents
    /\ \E i \in DOMAIN pool : pool[i].state = "done" /\ pool[i].value # << >>

DistinctUrls(s) == \A i, j \in DOMAIN s : i # j => s[i].url # s[j].url

FetchSubmitted == ce.pc \in {"fetch_pool", "drain", "returned"}

\* C6: no two documents of a collect_evidence call share a URL, and no URL is
\* submitted for fetching (or fetched) more than once, whatever the searches
\* returned and in whatever order they completed.
C6_NoUrlTwice ==
    /\ DistinctUrls(ce.documents)
    /\ FetchSubmitted => DistinctUrls([i \in DOMAIN pool |-> pool[i].item])
    /\ \A u \in Urls : backend.primary[u] <= 1 /\ backend.fallback[u] <= 1

\* C6 witness: two queries whose searches ran concurrently returned the same
\* URL, and the call returned two documents
C6_Witness ==
    /\ ce.pc = "returned"
    /\ Len(ce.queries) > 1
    /\ Len(ce.documents) = 2
    /\ \E i, j \in DOMAIN ce.aggregated_results :
          /\ ce.aggregated_results[i].url = ce.aggregated_results[j].url
          /\ ce.aggregated_results[i].title # ce.aggregated_results[j].title

\* C7: a collect_evidence call with an empty company and an empty address
\* calls neither the planner nor the search or fetch backend, and returns no
\* documents, zero search calls, zero fetch calls and a plan without queries
\* whose rationale is "Missing company and address".
C7_MissingInputReturnsEmpty ==
    ce.pc # "idle" /\ ce.company = Empty /\ ce.address = Empty =>
        /\ backend = NoBackendCalls
        /\ pool = << >>
        /\ ce.pc \in {"entry", "returned"}
        /\ ce.pc = "returned" =>
             /\ ce.documents = << >>
             /\ ce.search_call_count = 0
             /\ ce.fetch_call_count = 0
             /\ ce.plan.present
             /\ ce.plan.queries = << >>
             /\ ce.plan.rationale = <<"Missing", WS, "company", WS, "and", WS, "address">>

\* C7 witness: such a call returned, on a collector that has a planner
C7_Witness ==
    /\ ce.pc = "returned"
    /\ ce.company = Empty /\ ce.address = Empty
    /\ ce.pipeline.has_planner

\* The spec's test for an inconclusive result
Inconclusive(result) ==
    LET site_type == Lower(Strip(result["site_type"]))
        notes == Lower(Strip(result["notes"]))
    IN \/ site_type \in {Empty, <<"unknown">>}
       \/ Contains(notes, <<"insufficient">>)
       \/ Contains(notes, <<"not", WS, "enough">>)
       \/ Contains(notes, <<"unable", WS, "to", WS, "determine">>)
       \/ Contains(notes, <<"no", WS, "evidence">>)

BackendExists ==
    \/ cfg.enable_web_research
    \/ cfg.agentic_mode = "on"
    \/ cfg.agentic_mode = "auto" /\ cfg.hint_match

\* C8: a row that is not a cache hit gets exactly one expanded re-collection
\* if its first classification is inconclusive and a backend exists, none
\* otherwise; at most two collection and two classification passes.
C8_EscalationOnce ==
    /\ cur.expansions <= 1 /\ cur.collect_passes <= 2 /\ cur.classify_passes <= 2
    /\ cur.expansions = 1 => Inconclusive(cur.first_result) /\ BackendExists
    /\ pc = "merge" =>
         cur.expansions = IF Inconclusive(cur.first_result) /\ BackendExists THEN 1 ELSE 0

\* C8 witness: the second classification is inconclusive too and the row is
\* about to be written without a further pass
C8_Witness ==
    /\ pc = "merge"
    /\ cur.expansions = 1 /\ cur.classify_passes = 2 /\ cur.collect_passes = 2
    /\ Inconclusive(cur.model_result)

\* The first-pass collector's value of a threshold configured as n
FirstPassValue(n) == Max(1, n)

\* Is the expanded value of one threshold strictly above, at, or twice the
\* first pass's value
Thresholds ==
    << [configured |-> cfg.max_search_results,
        override |-> cfg.expanded_search_results,
        expanded |-> cur.expanded_pipeline.max_search_results,
        first |-> run.research_pipeline.max_search_results],
       [configured |-> cfg.max_documents,
        override |-> cfg.expanded_max_documents,
        expanded |-> cur.expanded_pipeline.max_documents,
        first |-> run.research_pipeline.max_documents] >>

\* C9 as claimed: whenever the expanded re-collection runs after a first
\* pass, both thresholds are strictly larger than the first-pass collector's.
C9_StrictlyLarger ==
    cur.expansions = 1 /\ run.research_pipeline.present =>
        \A t \in 1..2 : Thresholds[t].expanded > Thresholds[t].first

\* C9 amended: each threshold of the expanded collector is at least the first
\* pass's value (the configured value clamped to 1) and is strictly larger
\* exactly when its override is absent and the configured value is at least
\* 1, or its override exceeds the first pass's value.
C9_LargerUnlessOverridden ==
    cur.expansions = 1 =>
        \A t \in 1..2 :
            LET th == Thresholds[t]
                first == FirstPassValue(th.configured)
            IN /\ run.research_pipeline.present => th.first = first
               /\ th.expanded >= first
               /\ th.expanded > first <=>
                    \/ th.override = NoInt /\ th.configured >= 1
                    \/ th.override # NoInt /\ IntOf(th.override) > first

\* C9 witness: an expanded pass after a first pass, with more search results
\* but the same number of documents
C9_Witness ==
    /\ cur.expansions = 1 /\ run.research_pipeline.present
    /\ Thresholds[1].expanded > Thresholds[1].first
    /\ Thresholds[2].expanded = Thresholds[2].first

\* C10 as claimed: the expanded thresholds are never below the first pass's,
\* are twice the first pass's when no override is given, and query expansion
\* is on.
C10_DoubleByDefault ==
    cur.expansions = 1 =>
        /\ cur.expanded_pipeline.expanded_queries
        /\ \A t \in 1..2 :
             LET th == Thresholds[t]
                 first == FirstPassValue(th.configured)
             IN /\ th.expanded >= first
                /\ th.override = NoInt => th.expanded = 2 * first

\* C10 amended: never below the first pass's values; twice the first pass's
\* value when no override is given and the configured value is at least 1
\* (below 1 both passes use 1); query expansion is on.
C10_DoubleByDefaultFromOne ==
    cur.expansions = 1 =>
        /\ cur.expanded_pipeline.expanded_queries
        /\ \A t \in 1..2 :
             LET th == Thresholds[t]
                 first == FirstPassValue(th.configured)
             IN /\ th.expanded >= first
                /\ th.override = NoInt /\ th.configured >= 1 => th.expanded = 2 * first
                /\ th.override = NoInt /\ th.configured < 1 => th.expanded = first

\* C10 witness: an expanded pass with no override and doubled thresholds
C10_Witness ==
    /\ cur.expansions = 1
    /\ cfg.expanded_search_results = NoInt /\ cfg.expanded_max_documents = NoInt
    /\ cur.expanded_pipeline.expanded_queries
    /\ \A t \in 1..2 : Thresholds[t].expanded = 2 * FirstPassValue(Thresholds[t].configured)
    /\ Thresholds[1].expanded > 2

\* The expanded re-collection of the row in progress returned no documents
EmptyExpansion == cur.expansions = 1 /\ cur.new_evidence_docs = 0

\* C11: when the expanded re-collection returns no documents, neither the
\* summarizer nor the classifier runs again, and the row is written with the
\* first classification result, the first pass's query-plan text and the
\* first pass's evidence summary.
C11_EmptyExpansionKeepsVerdict ==
    [][pc = "merge" /\ EmptyExpansion =>
          /\ cur.classify_passes = 1
          /\ cur.summarize_passes = cur.first_summarize_passes
          /\ Len(output_rows') = Len(output_rows) + 1
          /\ LET out == output_rows'[Len(output_rows')]
             IN /\ \A f \in ClassificationColumns : out[f] = cur.first_result[f]
                /\ Get(out, "query_plan") = cur.first_plan_summary
                /\ Get(out, "evidence_summary") = cur.first_summary_text]_vars

\* C11 witness: a first pass with a summarized document gave an inconclusive
\* result, the expanded re-collection returned nothing, and the row is about
\* to be written
C11_Witness ==
    /\ pc = "merge" /\ EmptyExpansion
    /\ cur.first_summary_text # Empty
    /\ cur.first_plan_summary # Empty
    /\ cur.evidence_docs > 0

AgentEnded == agent.pc \in {"done", "raised"}

\* The run ended in DONE or with the agent's own failure signal
AgentEndedAsSpecified == agent.error \in {"none", "ToolAgentError"}

\* C12: a run in which every model reply requested tool calls and carried no
\* final content ends with ToolAgentError after exactly max_iterations model
\* calls, and never in a returned answer.
C12_ToolCallsOnlyExhausts ==
    AgentEnded /\ agent.only_tool_calls =>
        /\ agent.pc = "raised"
        /\ agent.error = "ToolAgentError"
        /\ agent.model_calls = agent.max_iterations

\* C12, for the runs in which no tool execution raised
C12_WhenToolsReturn == AgentEndedAsSpecified => C12_ToolCallsOnlyExhausts

\* C13: every run makes at most max(1, max_iterations) model calls and ends
\* either returning a non-empty final text or raising ToolAgentError; with a
\* configured max_iterations below 1 the run makes one model call.
C13_BoundedDoneOrExhausted ==
    agent.pc # "idle" =>
        /\ agent.model_calls <= Max(1, agent.configured)
        /\ agent.pc = "done" => agent.final_text # Empty
        /\ agent.pc = "raised" => agent.error = "ToolAgentError"
        /\ AgentEnded /\ agent.configured < 1 => agent.model_calls = 1

\* C13, for the runs in which no tool execution raised
C13_WhenToolsReturn == AgentEndedAsSpecified => C13_BoundedDoneOrExhausted

\* C14: with agentic mode enabled and a search stack configured, a failure
\* raised while invoking or running the Tool Agent never fails the row:
\* run_model_on_address falls through to single-shot classification, so
\* process_file never stops on the agent's invocation.
C14_AgentFailureFallsBack == abort # "agent_invocation"

\* The pieces of raw from i to j are a balanced-brace span that the scan
\* meets outside every other span: no brace opened before i is still open
\* at i, and the braces opened from i are closed at j and not before.
Opens(s, a, b) == Cardinality({k \in a..b : s[k] = "{"})
Closes(s, a, b) == Cardinality({k \in a..b : s[k] = "}"})
BalancedSpan(s, i, j) ==
    /\ i < j /\ s[i] = "{" /\ s[j] = "}"
    /\ Opens(s, i, j) = Closes(s, i, j)
    /\ \A k \in i..(j - 1) : Opens(s, i, k) > Closes(s, i, k)
OutermostSpan(s, i, j) ==
    /\ BalancedSpan(s, i, j)
    /\ \A a \in 1..(i - 1) : s[a] = "{" => \E b \in (a + 1)..(i - 1) : BalancedSpan(s, a, b)
DecodableSpans(s) ==
    {span \in (1..Len(s)) \X (1..Len(s)) :
        /\ OutermostSpan(s, span[1], span[2])
        /\ JsonLoads(SubSeq(s, span[1], span[2])).ok}
FirstDecodableSpan(s) ==
    CHOOSE span \in DecodableSpans(s) : \A other \in DecodableSpans(s) : span[1] <= other[1]
FieldsOf(value) ==
    [site_type |-> Get(value.fields, "site_type"),
     confidence |-> Get(value.fields, "confidence"),
     notes |-> Get(value.fields, "notes")]
ResultFields(result) ==
    [site_type |-> result.site_type, confidence |-> result.confidence, notes |-> result.notes]

\* A valid JSON object stands in raw between i and j, with noise before and after
ObjectInNoise(s, i, j) ==
    /\ 1 < i /\ i < j /\ j < Len(s)
    /\ JsonLoads(SubSeq(s, i, j)).ok
    /\ JsonLoads(SubSeq(s, i, j)).value.kind = "object"

\* C15 (as stated): a raw output that is not valid JSON but contains a valid
\* JSON object with noise before and after it is recovered: the result is not
\* the invalid-JSON result, and its fields are those of an object of the text.
C15_NoisyObjectRecovered ==
    parse.pc # "called" /\ ~JsonLoads(parse.raw_output).ok
    /\ (\E i, j \in 1..Len(parse.raw_output) : ObjectInNoise(parse.raw_output, i, j))
    => /\ parse.pc = "returned"
       /\ parse.result.notes # InvalidJsonNote
       /\ \E i, j \in 1..Len(parse.raw_output) :
            /\ ObjectInNoise(parse.raw_output, i, j)
            /\ ResultFields(parse.result)
                 = FieldsOf(JsonLoads(SubSeq(parse.raw_output, i, j)).value)

\* C15 (amended): a raw output that is not valid JSON, in which a balanced
\* span of braces outside every other span decodes, gives the fields of the
\* first such span; spans before it that do not decode are passed over.
C15_FirstDecodableSpanRecovered ==
    parse.pc # "called" /\ ~JsonLoads(parse.raw_output).ok
    /\ DecodableSpans(parse.raw_output) # {}
    => LET span == FirstDecodableSpan(parse.raw_output)
       IN /\ parse.pc = "returned"
          /\ ResultFields(parse.result)
               = FieldsOf(JsonLoads(SubSeq(parse.raw_output, span[1], span[2])).value)

\* An object was recovered from noise after a span that did not decode
C15_Witness ==
    /\ parse.pc = "returned"
    /\ ~JsonLoads(parse.raw_output).ok
    /\ DecodableSpans(parse.raw_output) # {}
    /\ \E j \in 1..Len(parse.raw_output) :
         /\ j < FirstDecodableSpan(parse.raw_output)[1]
         /\ OutermostSpan(parse.raw_output, 1, j)
    /\ parse.result.site_type = <<"warehouse">>

\* C16: a raw output that neither decodes as JSON nor holds a balanced span
\* that decodes gives, as a returned value, site_type "" and confidence ""
\* with notes "model did not return valid JSON".
C16_TotalFailureIsAValue ==
    parse.pc # "called" /\ ~JsonLoads(parse.raw_output).ok
    /\ DecodableSpans(parse.raw_output) = {}
    => /\ parse.pc = "returned"
       /\ parse.result.site_type = Empty
       /\ parse.result.confidence = Empty
       /\ parse.result.notes = InvalidJsonNote

\* The call returned for a text with a balanced span that does not decode
C16_Witness ==
    /\ parse.pc = "returned"
    /\ ~JsonLoads(parse.raw_output).ok
    /\ DecodableSpans(parse.raw_output) = {}
    /\ \E i, j \in 1..Len(parse.raw_output) : OutermostSpan(parse.raw_output, i, j)
    /\ parse.result.notes = InvalidJsonNote

\* C17: whatever the raw output, the call returns a result whose
\* raw_model_output is the raw output.
C17_RawOutputPreserved ==
    parse.pc # "called" =>
        /\ parse.pc = "returned"
        /\ parse.result.raw_model_output = parse.raw_output

\* The part of C17 that holds: a result that is returned carries the raw output
C17_WhenReturned ==
    parse.pc = "returned" => parse.result.raw_model_output = parse.raw_output

\* The raw outputs on which the call raises decode to a value that is not an object
C17_RaisesOnlyOnNonObject ==
    parse.pc = "raised" =>
        /\ parse.raised = "AttributeError"
        /\ JsonLoads(parse.raw_output).ok
        /\ JsonLoads(parse.raw_output).value.kind = "list"

\* Every attempt of the returned call got text that is no JSON
AllAttemptsInvalidJson ==
    /\ planner.pc = "returned"
    /\ Len(planner.outcomes) = planner.max_retries
    /\ \A i \in 1..Len(planner.outcomes) : planner.outcomes[i] = "invalid_json"

\* C18: after invalid JSON on both attempts of a planner with max_retries = 2,
\* the returned plan has used_model false and the default queries truncated
\* to max_queries.
C18_InvalidJsonTwiceFallsBack ==
    AllAttemptsInvalidJson /\ planner.configured_retries = 2 =>
        /\ ~planner.plan.used_model
        /\ planner.plan.queries = Truncate(planner.default_queries, planner.max_queries)

\* The part of C18 that holds: the queries are the truncated defaults
C18_QueriesAreDefaults ==
    AllAttemptsInvalidJson =>
        planner.plan.queries = Truncate(planner.default_queries, planner.max_queries)

\* used_model is false after invalid JSON only when the last text was empty
C18_UsedModelUnlessEmptyText ==
    AllAttemptsInvalidJson =>
        planner.plan.used_model = RawNonEmpty(planner.last_raw)

\* No attempt of the call gave queries
NoUsableQueries ==
    /\ Len(planner.outcomes) = planner.max_retries
    /\ \A i \in 1..Len(planner.outcomes) :
         planner.outcomes[i] \in {"invalid_json", "no_queries", "request_failed"}

\* C19: when no attempt gave usable queries, the call returns a plan whose
\* rationale is "Fallback to heuristic queries".
C19_FallbackRationale ==
    planner.pc \notin {"loop", "after_loop"} /\ NoUsableQueries =>
        /\ planner.pc = "returned"
        /\ planner.plan.rationale = FallbackRationale

\* The rationale that is returned when no attempt gave queries: the one of
\* the last attempt, and the fallback text only when that one is empty
C19_RationaleOfLastAttempt ==
    planner.pc = "returned" /\ NoUsableQueries =>
        LET last == planner.outcomes[Len(planner.outcomes)]
        IN planner.plan.rationale =
             IF last = "invalid_json" THEN InvalidJsonRationale
             ELSE IF last = "request_failed" THEN RequestFailedRationale
             ELSE IF Strip(planner.last_raw.rationale.text) # Empty
             THEN Strip(planner.last_raw.rationale.text)
             ELSE FallbackRationale

\* C20: a collect_evidence call with a non-empty company or address returns
\* a plan with at least one query.
C20_PlanHasAQuery ==
    ce.pc = "returned" /\ (ce.company # Empty \/ ce.address # Empty) =>
        Len(ce.plan.queries) >= 1

\* The part of C20 that holds: a company or address with a character other
\* than whitespace
C20_WhenNotBlank ==
    ce.pc = "returned" /\ (Strip(ce.company) # Empty \/ Strip(ce.address) # Empty) =>
        Len(ce.plan.queries) >= 1

\* The same for plan_queries: a returned plan is empty only when the default
\* queries are
C20_PlannerEmptyOnlyWithoutDefaults ==
    planner.pc = "returned" /\ planner.plan.queries = << >> =>
        planner.default_queries = << >>

\* The last attempt made so far ended with a RequestException
LastAttemptFailedRequest ==
    /\ planner.outcomes # << >>
    /\ planner.outcomes[Len(planner.outcomes)] = "request_failed"

\* C21: an attempt whose model call fails at the transport level is an
\* attempt without queries: nothing is raised, the loop goes on to the next
\* attempt, and after the last attempt the default queries are returned.
C21_TransportFailureIsAnEmptyAttempt ==
    [][/\ (planner.pc = "loop" /\ LastAttemptFailedRequest' /\ planner'.attempt # planner.attempt
             => /\ planner'.attempt = planner.attempt + 1
                /\ planner'.plan.queries = << >>
                /\ planner'.error = "none"
                /\ planner'.pc = IF planner'.attempt < planner.max_retries
                                 THEN "loop" ELSE "after_loop")
       /\ (planner.pc = "after_loop" /\ LastAttemptFailedRequest
             => /\ planner'.pc = "returned"
                /\ planner'.plan.queries
                     = Truncate(planner.default_queries, planner.max_queries))]_vars

\* Two attempts failed at the transport level and the defaults were returned
C21_Witness ==
    /\ planner.pc = "returned"
    /\ planner.outcomes = <<"request_failed", "request_failed">>
    /\ planner.plan.queries = planner.default_queries
    /\ planner.default_queries # << >>

\* C22: the queries plan_queries returns hold no blank string and are at
\* most max_queries.
C22_NoBlankAtMostMaxQueries ==
    planner.pc = "returned" =>
        /\ Len(planner.plan.queries) <= planner.max_queries
        /\ \A i \in 1..Len(planner.plan.queries) : Strip(planner.plan.queries[i]) # Empty

\* A model plan with more queries than max_queries, and blank ones, was returned
C22_Witness ==
    /\ planner.pc = "returned"
    /\ planner.outcomes[Len(planner.outcomes)] = "queries"
    /\ Len(planner.last_raw.queries.items) > planner.max_queries
    /\ \E i \in 1..Len(planner.last_raw.queries.items) :
         Strip(planner.last_raw.queries.items[i]) = Empty

\* The columns the output carries after the input columns
AppendedColumns ==
    <<"site_type", "confidence", "notes", "raw_model_output",
      "query_plan", "evidence_summary", "category_suggestions">>

\* C23: every write of the output file gives it the input columns followed by
\* site_type, confidence, notes, raw_model_output, query_plan,
\* evidence_summary and category_suggestions, and the write of the rows
\* succeeds.
C23_AllColumnsWritten ==
    [][outfile' # outfile =>
          /\ outfile'.header = AppendMissing(run.original_headers, AppendedColumns)
          /\ abort' # "write_error"]_vars

\* C23 holds for the runs whose input rows bring a category_suggestions column
C23_WithCategoryColumn ==
    []["category_suggestions" \in Range(run.original_headers) /\ outfile' # outfile =>
          /\ outfile'.header = AppendMissing(run.original_headers, AppendedColumns)
          /\ abort' # "write_error"]_vars

\* Without that column the header never has category_suggestions
C23_ColumnMissing ==
    [][outfile' # outfile /\ "category_suggestions" \notin Range(run.original_headers) =>
          "category_suggestions" \notin Range(outfile'.header)]_vars

\* C24: whatever the evidence and whatever the model gives, the text of the
\* returned EvidenceSummary is not empty.
C24_SummaryNeverEmpty ==
    summary.pc = "returned" => summary.result.text # Empty

\* The part of C24 that holds: without evidence, after a transport failure,
\* and for a model text with a character other than whitespace
C24_WhenModelTextNotBlank ==
    summary.pc = "returned"
    /\ (summary.evidence = << >> \/ summary.reply.raised \/ Strip(summary.reply.raw) # Empty)
    => summary.result.text # Empty

\* The run uses a search backend (the pipeline or the agent's tools) and has
\* no credential for it
CredentialMissing ==
    /\ ~cfg.has_token
    /\ cfg.enable_web_research \/ ShouldUseAgenticLoop(cfg.agentic_mode, cfg.hint_match)

\* C25: the only step of a run whose backend credential is missing is the
\* failure at startup: no row is processed and the output file is not touched.
C25_MissingCredentialFailsAtStartup ==
    [][CredentialMissing =>
          /\ pc = "startup" /\ pc' = "aborted" /\ abort' = "missing_credential"
          /\ outfile' = outfile
          /\ output_rows' = << >> /\ hist' = << >> /\ idx' = idx /\ cur' = cur]_vars

\* The run failed at startup over an input with rows and a prior output file
C25_Witness ==
    /\ CredentialMissing
    /\ pc = "aborted" /\ abort = "missing_credential"
    /\ input_file.rows # << >>
    /\ outfile.exists /\ outfile.rows # << >>

\* The rows being processed are the first rows of the input, in input order
InInputOrder ==
    /\ Len(run.rows_to_process) <= Len(ReadCsv(input_file))
    /\ run.rows_to_process = SubSeq(ReadCsv(input_file), 1, Len(run.rows_to_process))

\* The rows completed so far are those of the first records being
\* processed, one per record and in their order
OneRowPerRecord ==
    /\ Len(output_rows) <= Len(run.rows_to_process)
    /\ pc = "loop" => Len(output_rows) = idx - 1
    /\ \A i \in 1..Len(output_rows) :
         /\ Get(output_rows[i], COMPANY_COLUMN) = Get(run.rows_to_process[i], COMPANY_COLUMN)
         /\ Get(output_rows[i], ADDRESS_COLUMN) = Get(run.rows_to_process[i], ADDRESS_COLUMN)

\* A write of the output file keeps, at their positions, the rows that the
\* run had written before
FlushKeepsPrefix ==
    outfile' # outfile =>
        /\ written' >= written
        /\ \A i \in 1..written : outfile'.rows[i] = outfile.rows[i]

\* The output file holds the row of every processed record, in processing order
OutputComplete ==
    /\ Len(outfile.rows) = Len(run.rows_to_process)
    /\ \A i \in 1..Len(outfile.rows) :
         outfile.rows[i] = RowAsWritten(output_rows[i], outfile.header)

C26_SampleOutOfOrder ==
    /\ pc = "done" /\ cfg.random_sample /\ ~InInputOrder
    /\ Len(outfile.rows) = 2

\* C27: the step in which the model returns an empty message ends the run
\* with ToolAgentError, without a tool call, and no step follows it.
C27_EmptyMessageEndsAtOnce ==
    [][/\ (agent'.last_reply = "empty" /\ agent'.model_calls # agent.model_calls
             => /\ agent'.pc = "raised" /\ agent'.error = "ToolAgentError"
                /\ agent'.model_calls = agent.model_calls + 1
                /\ agent'.tool_runs = agent.tool_runs
                /\ agent'.messages = agent.messages)
       /\ (agent.last_reply = "empty" => agent' = agent)]_vars

\* The empty message came in a later iteration, after a tool call was executed
C27_Witness ==
    /\ agent.last_reply = "empty"
    /\ agent.pc = "raised"
    /\ agent.model_calls = 2 /\ agent.tool_runs >= 1
    /\ agent.model_calls < agent.max_iterations + 1

\* Message i of the transcript is an assistant message that requests tool calls
RequestsTools(messages, i) ==
    messages[i].role = "assistant" /\ messages[i].tool_calls # << >>

\* Every assistant message that requests tool calls is followed, in request
\* order, by one tool message per call with that call's id, and every tool
\* message is one of these
ToolMessagesFollow(messages) ==
    /\ \A i \in 1..Len(messages) :
         RequestsTools(messages, i) =>
            /\ i + Len(messages[i].tool_calls) <= Len(messages)
            /\ \A k \in 1..Len(messages[i].tool_calls) :
                 /\ messages[i + k].role = "tool"
                 /\ messages[i + k].tool_call_id = messages[i].tool_calls[k].id
    /\ \A j \in 1..Len(messages) :
         messages[j].role = "tool" =>
            \E i \in 1..(j - 1) :
                RequestsTools(messages, i) /\ j - i <= Len(messages[i].tool_calls)

\* The transcript only grows at its end
AppendOnly ==
    /\ Len(agent'.messages) >= Len(agent.messages)
    /\ SubSeq(agent'.messages, 1, Len(agent.messages)) = agent.messages

\* C28: the transcript is append-only, and at every model call and at the
\* return every assistant message that requests tool calls is followed by
\* its tool messages, one per call, in request order and with the call's id.
C28_OneToolMessagePerCall ==
    [][/\ AppendOnly
       /\ agent'.pc \in {"awaiting_model", "done"} => ToolMessagesFollow(agent'.messages)]_vars

\* Only a run that a raising tool has ended, which makes no further model
\* call, leaves a requesting message without all its tool messages
C28_LeftIncomplete ==
    agent.pc = "raised" /\ ~ToolMessagesFollow(agent.messages)
        => agent.error \notin {"none", "ToolAgentError"}

\* Two calls of one assistant message were answered in order before a model call
C28_Witness ==
    /\ agent.pc = "awaiting_model"
    /\ \E i \in 1..Len(agent.messages) :
         RequestsTools(agent.messages, i) /\ Len(agent.messages[i].tool_calls) = 2

\* C29: every execution of a requested tool call gives a tool message with a
\* JSON string, and nothing is raised out of the agent loop.
C29_ToolExecutionNeverRaises ==
    [][agent.pc = "tool_executing" /\ agent'.tool_runs = agent.tool_runs + 1 =>
          /\ agent'.pc # "raised"
          /\ Len(agent'.messages) = Len(agent.messages) + 1
          /\ agent'.messages[Len(agent'.messages)].role = "tool"
          /\ agent'.messages[Len(agent'.messages)].content.text # Empty]_vars

\* The calls whose execution raises: arguments that decode to a JSON array,
\* and a count that int() does not take
C29_RaisesOnlyForArrayOrCount ==
    agent.pc = "raised" /\ agent.error # "ToolAgentError" =>
        /\ agent.error \in {"AttributeError", "TypeError", "ValueError"}
        /\ Head(agent.pending) \in {SearchNullCount, SearchWordCount, FetchArrayArgs}

\* The part of C29 that holds: an unknown tool, missing or undecodable
\* arguments and a backend failure give an error payload
C29_OtherFailuresGiveErrorPayload ==
    \A call \in ToolCalls \ {SearchNullCount, SearchWordCount, FetchArrayArgs} :
        \A backend_ok \in BOOLEAN :
            /\ ExecuteTool(call, backend_ok).raised = "none"
            /\ ExecuteTool(call, backend_ok).body # Empty
            /\ agent.pc = "raised" => agent.pending = << >> \/ Head(agent.pending) # call

\* ---------------------------------------------------------------------------
\* C30
\* ---------------------------------------------------------------------------

\* the fetch attempts made against the backend, primary and fallback
RECURSIVE FetchAttempts(_)
FetchAttempts(urls) ==
    IF urls = {} THEN 0
    ELSE LET u == CHOOSE x \in urls : TRUE
         IN backend.primary[u] + backend.fallback[u] + FetchAttempts(urls \ {u})

\* the fetches the loop took the result of
RECURSIVE CallsOf(_, _)
CallsOf(p, states) ==
    IF p = << >> THEN 0
    ELSE (IF Head(p).state \in states THEN Head(p).calls ELSE 0) + CallsOf(Tail(p), states)

\* C30: when collect_evidence returns, its fetch-call count equals the number
\* of fetch attempts, primary and fallback, made against the backend during
\* the call, also when the quota was reached before every fetch was collected
C30_FetchCountIsAttemptsMade ==
    ce.pc = "returned" => ce.fetch_call_count = FetchAttempts(Urls)

\* the count is the attempts of the collected fetches and never more than the
\* attempts made
C30_CountsCollectedFetchesOnly ==
    ce.pc = "returned" =>
        /\ ce.fetch_call_count = CallsOf(pool, {"collected"})
        /\ ce.fetch_call_count <= FetchAttempts(Urls)
        /\ FetchAttempts(Urls) = CallsOf(pool, {"collected", "done"})

\* the count equals the attempts made when every submitted fetch was collected
C30_ExactWhenAllCollected ==
    (ce.pc = "returned" /\ AllCollected(pool)) =>
        ce.fetch_call_count = FetchAttempts(Urls)

\* a return after the quota was reached with a finished fetch left uncollected
C30_QuotaBeforeAllCollected ==
    /\ ce.pc = "returned"
    /\ \E i \in DOMAIN pool : pool[i].state = "done" /\ pool[i].calls > 0

\* ---------------------------------------------------------------------------
\* C31
\* ---------------------------------------------------------------------------

\* the collector holds max_documents documents while fetches are in the pool
QuotaMet ==
    /\ ce.pc \in {"fetch_pool", "drain"}
    /\ QuotaReached(ce.documents, ce.pipeline.max_documents)

\* C31: once the quota of documents is met no further fetch attempt is
\* started, and the call returns without waiting for the outstanding fetches
C31_NoFetchStartsAfterQuota ==
    [][QuotaMet =>
          /\ backend'.primary = backend.primary
          /\ backend'.fallback = backend.fallback]_vars

\* what the executor does: the call returns only after every submitted fetch
\* has run to its end
C31_ReturnWaitsForEveryFetch ==
    (ce.pc = "returned" /\ pool # << >> /\ ce.fetch_candidates # << >>) => AllFinished

\* no more documents are accepted once the quota is met
C31_NoDocumentAfterQuota ==
    [][QuotaMet => ce'.documents = ce.documents]_vars

\* a fetch that was queued when the quota was met and has run by the return
C31_FetchStartedAfterQuota ==
    /\ QuotaMet
    /\ \E i \in DOMAIN pool : pool[i].state = "queued"

\* ---------------------------------------------------------------------------
\* C32
\* ---------------------------------------------------------------------------

\* a step of a worker thread: a submitted search or fetch starts or finishes
WorkerStep ==
    /\ DOMAIN pool' = DOMAIN pool
    /\ \E i \in DOMAIN pool :
         /\ pool'[i].state # pool[i].state
         /\ pool'[i].state \in {"running", "done"}

\* the values of the futures the coordinating thread took, in pool order
RECURSIVE ValuesOf(_, _)
ValuesOf(p, states) ==
    IF p = << >> THEN << >>
    ELSE (IF Head(p).state \in states THEN Head(p).value ELSE << >>) \o ValuesOf(Tail(p), states)

\* C32: within one collect_evidence call the evidence list, the results that
\* feed the seen-URL set and the call counters are written by the coordinating
\* thread only: a worker step leaves them alone, and under every interleaving
\* they hold exactly what the collected futures returned, nothing lost and
\* nothing twice
C32_OnlyCoordinatorWritesSharedState ==
    [][/\ WorkerStep => ce' = ce
       /\ ce'.pc = "search_pool" =>
             /\ ce'.search_call_count = CallsOf(pool', {"collected"})
             /\ Len(ce'.aggregated_results) = Len(ValuesOf(pool', {"collected"}))
       /\ ce'.pc \in {"fetch_pool", "drain"} =>
             /\ ce'.fetch_call_count = CallsOf(pool', {"collected"})
             /\ Len(ce'.documents) = Len(ValuesOf(pool', {"collected"}))
             /\ DistinctUrls(ce'.documents)
             /\ DistinctUrls(ce'.fetch_candidates)]_vars

\* C32 witness: the coordinating thread has taken one fetch's document while
\* another fetch has finished in its worker and a third is still running
C32_Witness ==
    /\ ce.pc = "fetch_pool"
    /\ Len(ce.documents) = 1
    /\ ce.fetch_call_count >= 1
    /\ Running # {}
    /\ \E i \in DOMAIN pool : pool[i].state = "done" /\ pool[i].value # << >>

\* ---------------------------------------------------------------------------
\* C33
\* ---------------------------------------------------------------------------

\* C33: plan_queries makes at most max_retries generate calls per plan, the
\* unconstrained retry after an HTTP rejection counted, and none after an
\* attempt that returned a query
C33_AtMostMaxRetriesGenerateCalls ==
    /\ planner.model_calls <= planner.max_retries
    /\ (planner.outcomes # << >> /\ planner.outcomes[Len(planner.outcomes)] = "queries")
          => planner.pc \notin {"loop"}

\* the loop makes at most max_retries attempts, each of one or two generate
\* calls
C33_AtMostTwoCallsPerAttempt ==
    /\ planner.attempt <= planner.max_retries
    /\ planner.attempt <= planner.model_calls
    /\ planner.model_calls <= 2 * planner.attempt

\* no generate call follows an attempt that returned a query
C33_NoCallAfterQueries ==
    [][(planner.outcomes # << >> /\ planner.outcomes[Len(planner.outcomes)] = "queries")
          => planner'.model_calls = planner.model_calls]_vars

\* a plan_queries call that made more generate calls than max_retries
C33_MoreCallsThanRetries ==
    /\ planner.pc = "returned"
    /\ planner.model_calls = 2 * planner.max_retries

\* ---------------------------------------------------------------------------
\* C34
\* ---------------------------------------------------------------------------

\* C34: the single shot makes at most two generate calls, the first with the
\* JSON constraint and a second without it only after an HTTP error of the
\* first; there is no third call
C34_AtMostTwoGenerateCalls ==
    /\ rm.generate_options \in {<< >>, <<"json">>, <<"json", "plain">>}
    /\ Len(rm.generate_options) = 2 => rm.errors[1] = "HTTPError"
    /\ rm.pc = "generate_plain" => rm.errors = <<"HTTPError">>
    /\ rm.pc \in {"returned", "raised"} /\ Len(rm.generate_options) = 1
          => rm.errors[1] # "HTTPError"

\* C34 witness: the first call was rejected and the unconstrained retry gave
\* the result
C34_Witness ==
    /\ rm.pc = "returned"
    /\ rm.generate_options = <<"json", "plain">>
    /\ rm.errors = <<"HTTPError", "none">>
    /\ rm.result.site_type # Empty

\* ---------------------------------------------------------------------------
\* C35
\* ---------------------------------------------------------------------------

\* the records of the input that the prior output held a result for
CachedInputKeys ==
    {RowKey(input_file.rows[i]) : i \in DOMAIN input_file.rows} \cap DOMAIN run.cached_rows

\* the output file holds a row for the record
InOutputFile(key) == \E i \in DOMAIN outfile.rows : RowKey(outfile.rows[i]) = key

\* C35: at every point of a run that started with a cache of prior output
\* rows, each cached row of a record of the input is still in the output file
\* or has been replaced there by this run's row for the record
C35_PriorResultsKept ==
    \A key \in CachedInputKeys : InOutputFile(key)

\* the same for the runs whose writes succeed (the input has the category
\* column) and that have not failed
C35_PriorResultsKeptWhenWritesSucceed ==
    (abort = "none" /\ "category_suggestions" \in Range(input_file.header))
        => C35_PriorResultsKept

\* what the code keeps: a run without a row limit that ends has written a row
\* for every record that had a cached result
C35_KeptAtTheEndOfAFullRun ==
    (pc = "done" /\ cfg.limit = NoInt) => C35_PriorResultsKept

\* the output file is rewritten from this run's rows only
C35_FileHoldsThisRunsRowsOnly ==
    [][outfile' # outfile =>
          \A i \in DOMAIN outfile'.rows : \E j \in DOMAIN output_rows' :
              RowKey(outfile'.rows[i]) = RowKey(output_rows'[j])]_vars

\* ---------------------------------------------------------------------------
\* C36
\* ---------------------------------------------------------------------------

\* the next run over the same input with the same category signature loads
\* the output file as its cache and takes the row from it
NextRunReuses(row) ==
    LET cached_rows == LoadCachedRows(outfile)
        cache_key == RowKey(row)
    IN /\ cache_key \in DOMAIN cached_rows
       /\ Get(cached_rows[cache_key], "category_suggestions") = run.category_hint_text

\* C36: every row a run wrote under the category signature S, freshly
\* classified or reused from the cache, carries the stored signature S, so
\* that the next run with S over the same input reuses it
C36_WrittenRowsReusedByNextRun ==
    pc = "done" =>
        \A i \in DOMAIN outfile.rows :
            RowKey(outfile.rows[i]) # NoKey => NextRunReuses(outfile.rows[i])

\* it holds for the rows the run classified itself
C36_FreshRowsReusedByNextRun ==
    (pc = "done" /\ Len(outfile.rows) = Len(hist)) =>
        \A i \in DOMAIN outfile.rows :
            (RowKey(outfile.rows[i]) # NoKey /\ ~hist[i].cache_hit)
                => NextRunReuses(outfile.rows[i])

\* and for every row when the signature is empty
C36_StableWithoutCategories ==
    (pc = "done" /\ run.category_hint_text = Empty) =>
        \A i \in DOMAIN outfile.rows :
            RowKey(outfile.rows[i]) # NoKey => NextRunReuses(outfile.rows[i])

\* a row reused from the cache under a non-empty signature was written
C36_ReusedRowWritten ==
    /\ pc = "done"
    /\ run.category_hint_text # Empty
    /\ \E i \in DOMAIN outfile.rows : i \in DOMAIN hist /\ hist[i].cache_hit

\* ---------------------------------------------------------------------------
\* C37
\* ---------------------------------------------------------------------------

\* the row being worked on has no address
WorkingOnRowWithoutAddress ==
    /\ pc \notin {"startup", "loop", "done"}
    /\ cur.pass >= 1
    /\ cur.address = Empty

\* the output row is the stub of a row without an address
WrittenAsNoAddress(row) ==
    /\ Get(row, "site_type") = Empty
    /\ Get(row, "confidence") = Empty
    /\ Get(row, "notes") = StubResult.notes

NoAddressRowsWrittenAsStub(rows) ==
    \A i \in DOMAIN output_rows :
        (i \in rows /\ Strip(Get(run.rows_to_process[i], ADDRESS_COLUMN)) = Empty)
            => WrittenAsNoAddress(output_rows[i])

\* C37: for a row whose address is empty no inference call of any kind
\* (planner, summarizer, classifier, agent) is made, and the row is written
\* with empty site_type and confidence and the no-address note
C37_NoInferenceForEmptyAddress ==
    /\ WorkingOnRowWithoutAddress => ~cur.inferred
    /\ NoAddressRowsWrittenAsStub(DOMAIN output_rows)

\* the classifier and the agent are skipped: run_model_on_address is entered
\* and returns the stub without a call
C37_ClassifierSkipped ==
    [][(pc = "classify" /\ cur.address = Empty) =>
          /\ cur'.inferred = cur.inferred
          /\ cur'.model_result = StubResult
          /\ pc' # "aborted"]_vars

\* a row without an address that was not taken from the cache is written as
\* the stub
C37_StubWrittenUnlessCached ==
    NoAddressRowsWrittenAsStub({i \in DOMAIN hist : ~hist[i].cache_hit})

\* without web research no call of any kind is made for the row
C37_NoInferenceWithoutWebResearch ==
    (WorkingOnRowWithoutAddress /\ ~cfg.enable_web_research) => ~cur.inferred

\* a row without an address that was classified as such after a summarizer or
\* planner call
C37_InferenceForEmptyAddress ==
    /\ WorkingOnRowWithoutAddress
    /\ cur.inferred
    /\ cur.classify_passes >= 1

\* ---------------------------------------------------------------------------
\* C38
\* ---------------------------------------------------------------------------

\* the submitted candidates whose fetch yielded content
YieldedContent == {i \in DOMAIN pool : pool[i].value # << >>}

FetchesSubmitted == ce.pc = "returned" /\ ce.fetch_candidates # << >>

\* C38: the number of returned documents is the smaller of max_documents and
\* the number of de-duplicated candidates whose primary or fallback fetch
\* yielded content, under every interleaving
C38_DocumentsAreMinOfQuotaAndYield ==
    FetchesSubmitted =>
        Len(ce.documents) = Min(ce.pipeline.max_documents, Cardinality(YieldedContent))

\* C38 witness: three candidates, two of them with content, and a quota of one
C38_Witness ==
    /\ FetchesSubmitted
    /\ Len(pool) = 3
    /\ Cardinality(YieldedContent) = 2
    /\ Len(ce.documents) = 1
    /\ ce.pipeline.max_documents = 1

\* C38 witness: fewer candidates yielded content than the quota allows
C38_FewerThanQuota ==
    /\ FetchesSubmitted
    /\ Cardinality(YieldedContent) = 1
    /\ Len(ce.documents) = 1
    /\ ce.pipeline.max_documents = 2

\* ---------------------------------------------------------------------------
\* C39
\* ---------------------------------------------------------------------------

\* a step that made the chat call
ChatCallMade == agent'.model_calls = agent.model_calls + 1

\* the step appended the message to the transcript
MessageAppended ==
    /\ Len(agent'.messages) = Len(agent.messages) + 1
    /\ SubSeq(agent'.messages, 1, Len(agent.messages)) = agent.messages
    /\ agent'.messages[Len(agent'.messages)].role = "assistant"

\* C39: an assistant message that is not empty, has no tool calls and no
\* text does not end the run: it is appended, uses one iteration and the model
\* is asked again (or the iterations are used up); the run is done only on a
\* message with no tool calls and a text
C39_TextlessMessageDoesNotEndTheRun ==
    [][/\ (ChatCallMade /\ agent'.last_reply = "no_text") =>
             /\ agent'.pc = "awaiting_model"
             /\ MessageAppended
             /\ agent'.messages[Len(agent'.messages)].tool_calls = << >>
             /\ agent'.iteration = agent.iteration + 1
             /\ agent'.final_text = Empty
             /\ agent'.error = "none"
       /\ (agent'.pc = "done" /\ agent.pc # "done") =>
             /\ ChatCallMade
             /\ MessageAppended
             /\ agent'.messages[Len(agent'.messages)].tool_calls = << >>
             /\ agent'.final_text # Empty
             /\ agent'.final_text = ExtractContent(agent'.messages[Len(agent'.messages)].content)]_vars

\* C39 witness: the run ended with a final text after a message that had
\* neither tool calls nor text
C39_Witness ==
    /\ agent.pc = "done"
    /\ agent.model_calls = 2
    /\ agent.iteration = 1
    /\ agent.tool_runs = 0
    /\ Len(agent.messages) >= 2
    /\ LET textless == agent.messages[Len(agent.messages) - 1]
       IN /\ textless.role = "assistant"
          /\ textless.tool_calls = << >>
          /\ ExtractContent(textless.content) = Empty

\* the iterations used up by messages without text
C39_ExhaustedByTextlessMessages ==
    /\ agent.pc = "raised"
    /\ agent.last_reply = "no_text"
    /\ agent.tool_runs = 0
    /\ agent.model_calls = agent.max_iterations

\* ---------------------------------------------------------------------------
\* C40
\* ---------------------------------------------------------------------------

\* the call has ended, by a return or by an exception
RunModelEnded == rm.pc \in {"returned", "raised"}

\* agentic mode is used for the call and the model's replies lead the agent
\* to a final answer
AgentGivesFinalAnswer ==
    /\ rm.address # Empty
    /\ UseAgenticConfig(rm.agent_config)
    /\ rm.agent_script = "final"

C40_SingleShotOnlyWithoutAgentAnswer ==
    rm.generate_options # << >> =>
        \/ ~UseAgenticConfig(rm.agent_config)
        \/ rm.agent_outcome = "tool_agent_error"

\* what the code does in agentic mode: the call of the agent raises and
\* run_model_on_address returns nothing
C40_AgenticCallRaises ==
    (RunModelEnded /\ rm.address # Empty /\ UseAgenticConfig(rm.agent_config)) =>
        /\ rm.pc = "raised"
        /\ rm.raised = "agent_invocation"
        /\ rm.agent_calls = 1
        /\ rm.generate_options = << >>

\* an agentic call with an agent that would answer has ended
C40_AgenticCallEnded ==
    /\ RunModelEnded
    /\ AgentGivesFinalAnswer
    /\ rm.agent_calls = 1

================================================================
